---- MODULE Spec2Model ----
(***************************************************************************)
(* Model of the sensitive-data detection core: the text normalizers,       *)
(* scorers and matchers of app/backend/scripts/myregex.py and the line     *)
(* clusterer and entity locator of app/backend/scripts/ocr.py.             *)
(*                                                                         *)
(* A text is a sequence of one-character strings.  A score is an integer   *)
(* number of ScoreUnit-ths (1.0 is ScoreUnit).                             *)
(***************************************************************************)
EXTENDS Integers, Sequences, FiniteSets, TLC

VARIABLES
    \* the free-text machine: the text, the text before its last change, the
    \* step reached and what the entry point returned
    text, prev, stage, out,
    \* the line clusterer: the detections given, the sorted items not yet
    \* placed, the lines, the last placement and the step reached
    items, queue, lines, placed, phase,
    \* the entity locator: what the last call returned, and the answers of the
    \* successive positioned extractions
    found, runs,
    \* positioned extraction: the detections of the image, the calls made so
    \* far and the results gathered so far
    detections, calls, gathered,
    \* the OCR service: the requests in progress, the reader lock, the shared
    \* reader and whether the OCR library is installed
    procs, lock, reader, installed

textVars == <<text, prev, stage, out>>

boxVars == <<items, queue, lines, placed, phase, found, runs, detections, calls, gathered>>

serviceVars == <<procs, lock, reader, installed>>

vars == <<textVars, boxVars, serviceVars>>

\* the machines that are not running
TextIdle == text = <<>> /\ prev = <<>> /\ stage = "idle" /\ out = [op |-> "none"]

BoxIdle ==
    /\ items = <<>> /\ queue = <<>> /\ lines = <<>>
    /\ placed = [op |-> "none"] /\ phase = "idle"
    /\ found = [op |-> "none"] /\ runs = <<>>
    /\ detections = <<>> /\ calls = <<>> /\ gathered = <<>>

\* _reader = None; the readers built are numbered from 1
NoReader == 0

ServiceIdle == procs = <<>> /\ lock = 0 /\ reader = NoReader /\ installed = TRUE

----------------------------------------------------------------------------
(* Characters and the character classes the patterns use. *)

Digits == {"0", "1", "2", "3", "4", "5", "6", "7", "8", "9"}

DigitSeq == <<"0", "1", "2", "3", "4", "5", "6", "7", "8", "9">>

UpperSeq == <<"A", "B", "C", "D", "E", "F", "G", "H", "I", "J", "K", "L", "M",
              "N", "O", "P", "Q", "R", "S", "T", "U", "V", "W", "X", "Y", "Z">>

LowerSeq == <<"a", "b", "c", "d", "e", "f", "g", "h", "i", "j", "k", "l", "m",
              "n", "o", "p", "q", "r", "s", "t", "u", "v", "w", "x", "y", "z">>

Upper == {UpperSeq[i] : i \in 1..26}

Lower == {LowerSeq[i] : i \in 1..26}

Letters == Upper \cup Lower

\* \s : the ASCII white space of the model (form feed stands for the white
\* space that normalize_spaces does not turn into a blank)
WS == {" ", "\t", "\n", "\r", "\f"}

\* \w
WordChars == Letters \cup Digits \cup {"_"}

Seps == {".", "/", "-"}

----------------------------------------------------------------------------
(* Sequence helpers. *)

\* the concatenation of the sequences of ss, in order
RECURSIVE Flatten(_)
Flatten(ss) ==
    IF Len(ss) = 0 THEN <<>>
    ELSE IF Len(ss) = 1 THEN ss[1]
    ELSE LET h == Len(ss) \div 2
         IN  Flatten(SubSeq(ss, 1, h)) \o Flatten(SubSeq(ss, h + 1, Len(ss)))

\* the element of a one-element set; The({e : x \in {v}}) is e with x bound
\* to the value of v
The(S) == CHOOSE x \in S : TRUE

Contains(s, c) == \E i \in 1..Len(s) : s[i] = c

ContainsAny(s, S) == \E i \in 1..Len(s) : s[i] \in S

Min2(a, b) == IF a <= b THEN a ELSE b

Max2(a, b) == IF a >= b THEN a ELSE b

----------------------------------------------------------------------------
(* Python's re, as a backtracking matcher.  A pattern is a tree; Ends gives *)
(* the positions at which a match of the pattern starting at position i    *)
(* (i characters consumed) can end, in the order in which backtracking     *)
(* tries them, so the match re reports is the first one.                   *)

Cls(S) == [t |-> "set", s |-> S]

Cat(rs) == [t |-> "cat", rs |-> rs]

Alt(rs) == [t |-> "alt", rs |-> rs]

\* greedy repetition {lo,hi}; hi = -1 is unbounded
Rep(r, lo, hi) == [t |-> "rep", r |-> r, lo |-> lo, hi |-> hi]

Star(r) == Rep(r, 0, -1)

Plus(r) == Rep(r, 1, -1)

Opt(r) == Rep(r, 0, 1)

Bol == [t |-> "bol"]

Eol == [t |-> "eol"]

WordB == [t |-> "wordb"]

NotAfterWord == [t |-> "nlbw"]

IsWordAt(s, i) == i >= 1 /\ i <= Len(s) /\ s[i] \in WordChars

\* the number of characters from position i on that belong to S, at most cap
\* of them (cap = -1: no cap)
RunLength(S, s, i, cap) ==
    LET limit == IF cap = -1 THEN Len(s) - i ELSE Min2(cap, Len(s) - i)
        stops == {n \in 0..(limit - 1) : s[i + n + 1] \notin S}
    IN  IF stops = {} THEN limit ELSE CHOOSE n \in stops : \A k \in stops : n <= k

\* a greedy repetition of a character class: the longest run first, then
\* one character less at a time, down to lo
ClsRepEnds(S, lo, hi, s, i) ==
    LET run == RunLength(S, s, i, hi)
    IN  IF run < lo THEN <<>> ELSE [k \in 1..(run - lo + 1) |-> i + run - k + 1]

RECURSIVE Ends(_, _, _), CatEnds(_, _, _, _), AltEnds(_, _, _, _),
          RepEnds(_, _, _, _, _)

Ends(r, s, i) ==
    CASE r.t = "set" -> IF i < Len(s) /\ s[i + 1] \in r.s THEN <<i + 1>> ELSE <<>>
      [] r.t = "cat" -> CatEnds(r.rs, 1, s, i)
      [] r.t = "alt" -> AltEnds(r.rs, 1, s, i)
      [] r.t = "rep" -> IF r.r.t = "set" THEN ClsRepEnds(r.r.s, r.lo, r.hi, s, i)
                        ELSE RepEnds(r.r, r.lo, r.hi, s, i)
      [] r.t = "bol" -> IF i = 0 THEN <<i>> ELSE <<>>
      [] r.t = "eol" -> IF i = Len(s) \/ (i = Len(s) - 1 /\ s[Len(s)] = "\n")
                        THEN <<i>> ELSE <<>>
      [] r.t = "wordb" -> IF IsWordAt(s, i) # IsWordAt(s, i + 1) THEN <<i>> ELSE <<>>
      [] r.t = "nlbw" -> IF IsWordAt(s, i) THEN <<>> ELSE <<i>>

\* rs[k..] in sequence: the rest is tried from each end of rs[k], in order
CatEnds(rs, k, s, i) ==
    IF k > Len(rs) THEN <<i>>
    ELSE The({Flatten([j \in 1..Len(es) |-> CatEnds(rs, k + 1, s, es[j])]) :
                 es \in {Ends(rs[k], s, i)}})

AltEnds(rs, k, s, i) ==
    IF k > Len(rs) THEN <<>>
    ELSE Ends(rs[k], s, i) \o AltEnds(rs, k + 1, s, i)

\* a greedy repetition of a pattern: one more round first (a round that
\* consumes nothing ends the repetition), then stopping here
RepEnds(r, lo, hi, s, i) ==
    The({Flatten([j \in 1..Len(step) |-> RepEnds(r, lo1, hi1, s, step[j])])
         \o (IF lo = 0 THEN <<i>> ELSE <<>>) :
            step \in {IF hi = 0 THEN <<>> ELSE SelectSeq(Ends(r, s, i), LAMBDA e : e > i)},
            lo1 \in {Max2(lo - 1, 0)},
            hi1 \in {IF hi = -1 THEN -1 ELSE hi - 1}})

\* pattern.match(s): the end of the match at position 0, or -1
MatchEnd(r, s) == The({IF es = <<>> THEN -1 ELSE es[1] : es \in {Ends(r, s, 0)}})

Matches(r, s) == Ends(r, s, 0) # <<>>

\* pattern.search(s, from): the span <<start, end>> of the leftmost match at
\* or after position from, or <<>>
SearchFrom(r, s, from) ==
    The({IF P = {} THEN <<>>
         ELSE The({The({<<p, es[1]>> : es \in {Ends(r, s, p)}}) :
                      p \in {CHOOSE p \in P : \A q \in P : p <= q}}) :
            P \in {{p \in from..Len(s) : Ends(r, s, p) # <<>>}}})

Search(r, s) == SearchFrom(r, s, 0) # <<>>

\* pattern.finditer(s): the spans of the successive non-overlapping matches
RECURSIVE FindIter(_, _, _)
FindIter(r, s, from) ==
    The({IF m = <<>> THEN <<>>
         ELSE <<m>> \o FindIter(r, s, IF m[2] > m[1] THEN m[2] ELSE m[2] + 1) :
            m \in {SearchFrom(r, s, from)}})

Slice(s, a, b) == SubSeq(s, a + 1, b)

----------------------------------------------------------------------------
(* re.sub: every non-overlapping match, leftmost first, is replaced.  The   *)
(* replacement is a constant text, or is computed from the matched text     *)
(* where the source's template refers to groups.                            *)

ReplConst(v) == [k |-> "const", v |-> v]

\* r"\1" of normalize_date_token: the separator the match holds
ReplSeparator == [k |-> "sep"]

\* r"\1@\2.\3" of normalize_email: the matched text with the "_" between
\* groups 2 and 3 (the last "_" of the match: group 3 holds letters only)
\* turned into "."
ReplUnderscoreDot == [k |-> "lastdot"]

LastIndexOf(s, c) ==
    LET I == {i \in 1..Len(s) : s[i] = c}
    IN  IF I = {} THEN 0 ELSE CHOOSE i \in I : \A j \in I : j <= i

Expand(repl, m) ==
    CASE repl.k = "const" -> repl.v
      [] repl.k = "sep" -> SelectSeq(m, LAMBDA c : c \in Seps)
      [] repl.k = "lastdot" -> [m EXCEPT ![LastIndexOf(m, "_")] = "."]

RECURSIVE SubFrom(_, _, _, _)
SubFrom(r, repl, s, from) ==
    The({IF m = <<>> THEN Slice(s, from, Len(s))
         ELSE Slice(s, from, m[1]) \o Expand(repl, Slice(s, m[1], m[2]))
              \o (IF m[2] > m[1] THEN SubFrom(r, repl, s, m[2])
                  ELSE Slice(s, m[2], Len(s))) :
            m \in {SearchFrom(r, s, from)}})

Sub(r, repl, s) == SubFrom(r, repl, s, 0)

----------------------------------------------------------------------------
(* The patterns of myregex.py. *)

D19 == Digits \ {"0"}

DayPat == Alt(<<Cat(<<Opt(Cls({"0"})), Cls(D19)>>),
                Cat(<<Cls({"1", "2"}), Cls(Digits)>>),
                Cat(<<Cls({"3"}), Cls({"0", "1"})>>)>>)

MonthPat == Alt(<<Cat(<<Opt(Cls({"0"})), Cls(D19)>>),
                  Cat(<<Cls({"1"}), Cls({"0", "1", "2"})>>)>>)

YearPat == Alt(<<Rep(Cls(Digits), 2, 2), Rep(Cls(Digits), 4, 4)>>)

Year4Pat == Rep(Cls(Digits), 4, 4)

SepPat == Cls(Seps)

DATE_REGEXES ==
    << Cat(<<Bol, DayPat, SepPat, MonthPat, SepPat, YearPat, Eol>>),
       Cat(<<Bol, Year4Pat, SepPat, MonthPat, SepPat, DayPat, Eol>>) >>

EmailLocalChars == Letters \cup Digits \cup {".", "_", "%", "+", "-"}

EmailDomainChars == Letters \cup Digits \cup {".", "-"}

\* re.IGNORECASE: [A-Z] also matches the lower-case letters
EMAIL_REGEX ==
    Cat(<<Bol, Plus(Cls(EmailLocalChars)), Cls({"@"}), Plus(Cls(EmailDomainChars)),
          Cls({"."}), Rep(Cls(Letters), 2, -1), Eol>>)

UpperAlnum == Upper \cup Digits

IBAN_REGEX ==
    Cat(<<Bol, Rep(Cls(Upper), 2, 2), Rep(Cls(Digits), 2, 2),
          Rep(Cls(UpperAlnum), 11, 30), Eol>>)

PhoneBodyChars == Digits \cup WS \cup {"(", ")", ".", "-"}

PHONE_REGEX ==
    Cat(<<Bol, Cls({"+", "0"}), Cls(Digits), Rep(Cls(PhoneBodyChars), 5, -1), Eol>>)

COMMON_TLDS ==
    << <<"c", "o", "m">>, <<"n", "e", "t">>, <<"o", "r", "g">>, <<"d", "e">>,
       <<"a", "t">>, <<"c", "h">>, <<"f", "r">>, <<"e", "s">>, <<"i", "t">>,
       <<"n", "l">>, <<"b", "e">>, <<"u", "k">>, <<"c", "o">>, <<"e", "d", "u">>,
       <<"g", "o", "v">>, <<"i", "n", "f", "o">>, <<"i", "o">> >>

WsStar == Star(Cls(WS))

DATE_FIND_REGEXES ==
    << Cat(<<WordB, DayPat, WsStar, SepPat, WsStar, MonthPat, WsStar, SepPat, WsStar,
             YearPat, WordB>>),
       Cat(<<WordB, Year4Pat, WsStar, SepPat, WsStar, MonthPat, WsStar, SepPat, WsStar,
             DayPat, WordB>>) >>

EmailFindDomainChars == Letters \cup Digits \cup {".", "_", "-"}

EMAIL_FIND_REGEX ==
    Cat(<<WordB, Plus(Cls(EmailLocalChars)), WsStar, Cls({"@"}), WsStar,
          Plus(Cls(EmailFindDomainChars)), WsStar, Cls({"_", "."}), WsStar,
          Rep(Cls(Letters), 2, -1), WordB>>)

IBAN_FIND_REGEX ==
    Cat(<<WordB, Rep(Cls(Upper), 2, 2), WsStar, Rep(Cls(Digits \cup {"O"}), 2, 2),
          Rep(Cat(<<WsStar, Cls(UpperAlnum)>>), 11, 30), WordB>>)

PhoneFindBodyChars == Digits \cup WS \cup {"(", ")", ".", "-"}

PHONE_FIND_REGEX ==
    Cat(<<NotAfterWord, Cls({"+", "0"}), WsStar, Cls(Digits),
          Rep(Cls(PhoneFindBodyChars), 5, -1), Cls(Digits), WordB>>)

----------------------------------------------------------------------------
(* The normalizers. *)

\* one pass of text.replace("  ", " ")
RECURSIVE ReplaceDoubleSpace(_)
ReplaceDoubleSpace(s) ==
    IF Len(s) < 2 THEN s
    ELSE IF s[1] = " " /\ s[2] = " "
         THEN <<" ">> \o ReplaceDoubleSpace(SubSeq(s, 3, Len(s)))
         ELSE <<s[1]>> \o ReplaceDoubleSpace(Tail(s))

HasDoubleSpace(s) == \E i \in 1..(Len(s) - 1) : s[i] = " " /\ s[i + 1] = " "

RECURSIVE CollapseSpaces(_)
CollapseSpaces(s) ==
    IF HasDoubleSpace(s) THEN CollapseSpaces(ReplaceDoubleSpace(s)) ELSE s

\* str.strip()
Strip(s) ==
    LET I == {i \in 1..Len(s) : s[i] \notin WS}
    IN  IF I = {} THEN <<>>
        ELSE SubSeq(s, CHOOSE i \in I : \A j \in I : i <= j,
                       CHOOSE i \in I : \A j \in I : j <= i)

\* a variant that turns tabs and line ends into blanks after collapsing
normalize_spaces_TabsLast(s) ==
    Strip([i \in 1..Len(CollapseSpaces(s)) |->
              IF CollapseSpaces(s)[i] \in {"\t", "\r", "\n"} THEN " "
              ELSE CollapseSpaces(s)[i]])

normalize_spaces(s) ==
    Strip(CollapseSpaces([i \in 1..Len(s) |->
                             IF s[i] \in {"\t", "\r", "\n"} THEN " " ELSE s[i]]))

EmailTailRepair ==
    Cat(<<Plus(Cls(EmailLocalChars)), Cls({"@"}), Plus(Cls(EmailDomainChars)),
          Cls({"_"}), Rep(Cls(Letters), 2, -1), Eol>>)

normalize_email(s) ==
    LET t0 == normalize_spaces(s)
        t1 == Sub(Cat(<<WsStar, Cls({"@"}), WsStar>>), ReplConst(<<"@">>), t0)
        t2 == Sub(Cat(<<WsStar, Cls({"."}), WsStar>>), ReplConst(<<".">>), t1)
        t3 == Sub(Cat(<<WsStar, Cls({"_"}), WsStar>>), ReplConst(<<"_">>), t2)
    IN  Sub(EmailTailRepair, ReplUnderscoreDot, t3)

normalize_date_token(s) ==
    Sub(Cat(<<WsStar, Cls(Seps), WsStar>>), ReplSeparator, normalize_spaces(s))

normalize_phone(s) ==
    Sub(Plus(Cls(WS)), ReplConst(<<" ">>), normalize_spaces(s))

\* str.upper() on the characters of the model
ToUpper(c) ==
    IF c \in Lower THEN UpperSeq[CHOOSE i \in 1..26 : LowerSeq[i] = c] ELSE c

UpperText(s) == [i \in 1..Len(s) |-> ToUpper(s[i])]

\* the check digits (characters 3 and 4) with "O" replaced by "0"
FixCheckDigits(cleaned) ==
    IF Len(cleaned) >= 4 /\ (cleaned[3] = "O" \/ cleaned[4] = "O")
    THEN [i \in 1..Len(cleaned) |->
             IF i \in {3, 4} /\ cleaned[i] = "O" THEN "0" ELSE cleaned[i]]
    ELSE cleaned

normalize_iban(s) ==
    The({FixCheckDigits(cleaned) :
            cleaned \in {Sub(Plus(Cls(WS)), ReplConst(<<>>), UpperText(s))}})

digits_only(s) == SelectSeq(s, LAMBDA c : c \in Digits)

----------------------------------------------------------------------------
(* Scores.  The source computes them in IEEE-754 doubles; the model keeps   *)
(* the double rounded down to a whole number of millionths, and one more or *)
(* one less where double arithmetic leaves the result just above or just    *)
(* below the decimal value (0.4 + 0.2 is 0.6000000000000001), so that the   *)
(* comparisons of classify_text and of the locator come out as in the code. *)

ScoreUnit == 1000000

Tenth == ScoreUnit \div 10

\* a + b in doubles, for the sums of tenths the partial scores form
FloatAdd(a, b) ==
    CASE a = 2 * Tenth /\ b = Tenth -> 3 * Tenth + 1
      [] a = 4 * Tenth /\ b = 2 * Tenth -> 6 * Tenth + 1
      [] a = 6 * Tenth + 1 /\ b = 2 * Tenth -> 8 * Tenth
      [] a = 7 * Tenth /\ b = Tenth -> 8 * Tenth - 1
      [] a = 7 * Tenth /\ b = 2 * Tenth -> 9 * Tenth - 1
      [] OTHER -> a + b

\* 1.0 - (edits / denom) in doubles
FloatOneMinusRatio(edits, denom) ==
    LET num == denom - edits
    IN  IF num * 10 = denom THEN Tenth - 1
        ELSE IF num * 10 = 2 * denom THEN 2 * Tenth - 1
        ELSE IF num * 10 = 3 * denom THEN 3 * Tenth + 1
        ELSE (num * ScoreUnit) \div denom

clamp_score(value) == Max2(0, Min2(ScoreUnit, value))

\* the score after "if cond: score += inc"
AddIf(score, cond, inc) == IF cond THEN FloatAdd(score, inc) ELSE score

\* int() of a text of decimal digits
RECURSIVE ToInt(_)
ToInt(ds) ==
    IF ds = <<>> THEN 0
    ELSE 10 * ToInt(SubSeq(ds, 1, Len(ds) - 1))
         + ((CHOOSE i \in 1..10 : DigitSeq[i] = ds[Len(ds)]) - 1)

\* re.findall(r"\d+", s): the maximal runs of digits
DigitRuns(s) ==
    The({[k \in 1..Len(spans) |-> Slice(s, spans[k][1], spans[k][2])] :
            spans \in {FindIter(Plus(Cls(Digits)), s, 0)}})

\* match.groups() of a DATE_REGEXES match: the three digit groups are the
\* pieces of the matched text between its two separators
DateParts(s) ==
    LET last == IF Len(s) > 0 /\ s[Len(s)] = "\n" THEN Len(s) - 1 ELSE Len(s)
    IN  The({<< SubSeq(s, 1, seps[1] - 1), SubSeq(s, seps[1] + 1, seps[2] - 1),
                SubSeq(s, seps[2] + 1, last) >> :
                seps \in {SelectSeq([i \in 1..Len(s) |-> i], LAMBDA i : s[i] \in Seps)}})

DateShape ==
    Cat(<<Rep(Cls(Digits), 1, 4), SepPat, Rep(Cls(Digits), 1, 2), SepPat,
          Rep(Cls(Digits), 1, 4)>>)

YearMin == 1900

YearMax == 2100

\* the range test on the three numbers
RangeOk(day, month, year) ==
    /\ 1 <= month /\ month <= 12
    /\ 1 <= day /\ day <= 31
    /\ YearMin <= year /\ year <= YearMax

DateRangeOk(parts) ==
    IF Len(parts[1]) = 4
    THEN RangeOk(ToInt(parts[3]), ToInt(parts[2]), ToInt(parts[1]))
    ELSE RangeOk(ToInt(parts[1]), ToInt(parts[2]), ToInt(parts[3]))

\* the partial score of a text no strict date layout matches
DatePartialScore(cleaned, nums) ==
    LET s1 == AddIf(0, Search(DateShape, cleaned), 4 * Tenth)
        s2 == AddIf(s1, ContainsAny(cleaned, Seps), 2 * Tenth)
        s3 == AddIf(s2, Len(nums) >= 3, 2 * Tenth)
        s4 == AddIf(s3, \E k \in 1..Len(nums) : Len(nums[k]) = 4, 2 * Tenth)
    IN  clamp_score(s4)

ScoreCleanedDate(cleaned) ==
    IF \E k \in 1..2 : Matches(DATE_REGEXES[k], cleaned)
    THEN IF DateRangeOk(DateParts(cleaned)) THEN <<TRUE, ScoreUnit>>
         ELSE <<TRUE, 85 * (ScoreUnit \div 100)>>
    ELSE <<FALSE, The({DatePartialScore(cleaned, nums) : nums \in {DigitRuns(cleaned)}})>>

score_date(s) ==
    The({ScoreCleanedDate(cleaned) : cleaned \in {normalize_spaces(s)}})

\* ord(ch) - 55 for a capital letter: A is 10 ... Z is 35
LetterValue(ch) == (CHOOSE i \in 1..26 : UpperSeq[i] = ch) + 9

\* the text of decimal digits the rearranged IBAN converts to
RECURSIVE ConvertIban(_)
ConvertIban(s) ==
    IF s = <<>> THEN <<>>
    ELSE (IF s[1] \in Digits THEN <<s[1]>>
          ELSE LET v == LetterValue(s[1])
               IN  <<DigitSeq[(v \div 10) + 1], DigitSeq[(v % 10) + 1]>>)
         \o ConvertIban(Tail(s))

\* the remainder after the loop "for ch in converted" has run over ds
RECURSIVE RemainderLoop(_)
RemainderLoop(ds) ==
    IF ds = <<>> THEN 0
    ELSE (RemainderLoop(SubSeq(ds, 1, Len(ds) - 1)) * 10 + ToInt(<<ds[Len(ds)]>>)) % 97

\* iban[4:] + iban[:4]
Rearranged(iban) == SubSeq(iban, 5, Len(iban)) \o SubSeq(iban, 1, 4)

\* a variant that takes remainder 0 for the passing remainder
iban_checksum_ok_ZeroRemainder(s) ==
    The({IF ~Matches(IBAN_REGEX, iban) THEN FALSE
         ELSE RemainderLoop(ConvertIban(Rearranged(iban))) = 0 :
            iban \in {normalize_iban(s)}})

iban_checksum_ok(s) ==
    The({IF ~Matches(IBAN_REGEX, iban) THEN FALSE
         ELSE RemainderLoop(ConvertIban(Rearranged(iban))) = 1 :
            iban \in {normalize_iban(s)}})

\* the partial score of a text IBAN_REGEX does not match
IbanPartialScore(cleaned) ==
    LET length == Len(cleaned)
        s1 == AddIf(0, Matches(Cat(<<Bol, Rep(Cls(Upper), 2, 2)>>), cleaned), 3 * Tenth)
        s2 == AddIf(s1, Matches(Cat(<<Bol, Rep(Cls(Upper), 2, 2), Rep(Cls(Digits), 2, 2)>>),
                                cleaned), 2 * Tenth)
        s3 == AddIf(s2, 12 <= length /\ length <= 34, 2 * Tenth)
        s4 == AddIf(s3, Matches(Cat(<<Bol, Plus(Cls(UpperAlnum)), Eol>>), cleaned), 2 * Tenth)
        s5 == AddIf(s4, length >= 15, Tenth)
    IN  clamp_score(s5)

\* a variant that reports a failed checksum as invalid
score_iban_RejectsBadChecksum(s) ==
    The({IF Matches(IBAN_REGEX, cleaned)
         THEN IF iban_checksum_ok(cleaned) THEN <<TRUE, ScoreUnit>>
              ELSE <<FALSE, 7 * Tenth>>
         ELSE <<FALSE, IbanPartialScore(cleaned)>> :
            cleaned \in {normalize_iban(s)}})

\* a variant that never consults the checksum
score_iban_NoChecksum(s) ==
    The({IF Matches(IBAN_REGEX, cleaned) THEN <<TRUE, ScoreUnit>>
         ELSE <<FALSE, IbanPartialScore(cleaned)>> :
            cleaned \in {normalize_iban(s)}})

score_iban(s) ==
    The({IF Matches(IBAN_REGEX, cleaned)
         THEN <<TRUE, IF iban_checksum_ok(cleaned) THEN ScoreUnit ELSE 7 * Tenth>>
         ELSE <<FALSE, IbanPartialScore(cleaned)>> :
            cleaned \in {normalize_iban(s)}})

\* the partial score of a text PHONE_REGEX does not match
PhonePartialScore(cleaned, digit_count) ==
    LET s1 == AddIf(0, digit_count >= 7, 4 * Tenth)
        s2 == AddIf(s1, digit_count <= 15, 2 * Tenth)
        s3 == AddIf(s2, ContainsAny(cleaned, WS \cup {"+", "(", ")", "-"}), 2 * Tenth)
        s4 == AddIf(s3, Matches(Cat(<<Bol, Opt(Cls({"+"})), Cls(Digits)>>), cleaned),
                    2 * Tenth)
    IN  clamp_score(s4)

ScoreCleanedPhone(cleaned, digit_count) ==
    IF Matches(PHONE_REGEX, cleaned)
    THEN <<TRUE, IF 7 <= digit_count /\ digit_count <= 15
                 THEN ScoreUnit ELSE 8 * Tenth>>
    ELSE <<FALSE, PhonePartialScore(cleaned, digit_count)>>

score_phone(s) ==
    The({ScoreCleanedPhone(cleaned, Len(digits_only(cleaned))) :
            cleaned \in {normalize_phone(s)}})

----------------------------------------------------------------------------
(* The email scorer: edit distance to the repair candidates. *)

\* the row dp[i] from the row dp[i-1], filled left to right
RECURSIVE FillRow(_, _, _, _)
FillRow(above, row, ai, b) ==
    LET j == Len(row)
    IN  IF j > Len(b) THEN row
        ELSE LET cost == IF ai = b[j] THEN 0 ELSE 1
                 cell == Min2(Min2(above[j + 1] + 1, row[j] + 1), above[j] + cost)
             IN  FillRow(above, Append(row, cell), ai, b)

RECURSIVE LastRow(_, _, _, _)
LastRow(row, a, b, i) ==
    IF i > Len(a) THEN row
    ELSE LET next == FillRow(row, <<i>>, a[i], b)
         IN  \* (the test makes TLC compute the row before it goes on)
             IF Len(next) = 0 THEN next ELSE LastRow(next, a, b, i + 1)

edit_distance(a, b) ==
    IF a = b THEN 0
    ELSE IF a = <<>> THEN Len(b)
    ELSE IF b = <<>> THEN Len(a)
    ELSE LastRow([j \in 1..(Len(b) + 1) |-> j - 1], a, b, 1)[Len(b) + 1]

\* a variant that adds every candidate without the EMAIL_REGEX test
ValidCandidates_Unchecked(C) == C

\* the set _add_email_candidate leaves: the candidates EMAIL_REGEX matches
ValidCandidates(C) == {c \in C : Matches(EMAIL_REGEX, c)}

\* the candidates _add_domain_fixes offers for one local part and domain
DomainFixes(local, domain) ==
    IF local = <<>> \/ domain = <<>> THEN {}
    ELSE IF Contains(domain, ".") THEN {local \o <<"@">> \o domain}
    ELSE {local \o <<"@">> \o SubSeq(domain, 1, i) \o <<".">>
              \o SubSeq(domain, i + 1, Len(domain)) : i \in 1..(Len(domain) - 1)}
         \cup {local \o <<"@">> \o domain \o <<".">> \o COMMON_TLDS[k] :
                  k \in 1..Len(COMMON_TLDS)}

\* domain.replace("_", ".") and domain.replace("_", "")
UnderscoreToDot(d) == [i \in 1..Len(d) |-> IF d[i] = "_" THEN "." ELSE d[i]]

DropUnderscore(d) == SelectSeq(d, LAMBDA c : c # "_")

SplitFixes(local, domain) ==
    DomainFixes(local, domain)
    \cup (IF Contains(domain, "_")
          THEN DomainFixes(local, UnderscoreToDot(domain))
               \cup DomainFixes(local, DropUnderscore(domain))
          ELSE {})

email_candidates(s) ==
    LET ats == {i \in 1..Len(s) : s[i] = "@"}
    IN  ValidCandidates(
            {s} \cup
            (IF ats # {}
             THEN LET at == CHOOSE i \in ats : \A j \in ats : i <= j
                  IN  SplitFixes(SubSeq(s, 1, at - 1), SubSeq(s, at + 1, Len(s)))
             ELSE UNION {SplitFixes(SubSeq(s, 1, i), SubSeq(s, i + 1, Len(s))) :
                            i \in 1..(Len(s) - 1)}))

MaxOf(S) == CHOOSE x \in S : \A y \in S : y <= x

\* a variant that divides the distance by the length of the text
BestScore_ByTextLength(cleaned, candidates) ==
    The({MaxOf({0} \cup scores) :
            scores \in {{FloatOneMinusRatio(edit_distance(cleaned, c), Max2(Len(cleaned), 1)) :
                            c \in candidates}}})

\* the loop over the candidates: the largest score, from best_score = 0.0
BestScore(cleaned, candidates) ==
    The({MaxOf({0} \cup scores) :
            scores \in {{FloatOneMinusRatio(edit_distance(cleaned, c), Max2(Len(c), 1)) :
                            c \in candidates}}})

ScoreCleanedEmail(cleaned) ==
    IF Matches(EMAIL_REGEX, cleaned) THEN <<TRUE, ScoreUnit>>
    ELSE The({IF candidates = {} THEN <<FALSE, 0>>
              ELSE <<FALSE, clamp_score(BestScore(cleaned, candidates))>> :
                 candidates \in {email_candidates(cleaned)}})

score_email(s) ==
    The({ScoreCleanedEmail(cleaned) : cleaned \in {normalize_email(s)}})

----------------------------------------------------------------------------
(* score_entity, is_valid_entity, classify_text. *)

\* a variant that has no score for an unknown type
score_entity_NoFallback(entity_type, s) ==
    CASE entity_type = "date" -> score_date(s)
      [] entity_type = "iban" -> score_iban(s)
      [] entity_type = "phone" -> score_phone(s)
      [] entity_type = "email" -> score_email(s)
      [] OTHER -> <<FALSE, -1>>

score_entity(entity_type, s) ==
    CASE entity_type = "date" -> score_date(s)
      [] entity_type = "iban" -> score_iban(s)
      [] entity_type = "phone" -> score_phone(s)
      [] entity_type = "email" -> score_email(s)
      [] OTHER -> <<FALSE, 0>>

is_valid_date(s) == The({r[1] : r \in {score_date(s)}})

is_valid_email(s) == Matches(EMAIL_REGEX, normalize_email(s))

is_valid_iban(s) ==
    The({IF ~Matches(IBAN_REGEX, cleaned) THEN FALSE ELSE iban_checksum_ok(cleaned) :
            cleaned \in {normalize_iban(s)}})

IsValidCleanedPhone(cleaned, digit_count) ==
    IF ContainsAny(cleaned, Letters) THEN FALSE
    ELSE IF digit_count < 7 \/ digit_count > 15 THEN FALSE
    ELSE IF ~Matches(PHONE_REGEX, cleaned) THEN FALSE
    ELSE IF ~ContainsAny(cleaned, WS \cup {"+", "(", ")", ".", "-"}) THEN FALSE
    ELSE TRUE

is_valid_phone(s) ==
    The({IsValidCleanedPhone(cleaned, Len(digits_only(cleaned))) :
            cleaned \in {normalize_phone(s)}})

is_valid_entity(entity_type, s) ==
    CASE entity_type = "date" -> is_valid_date(s)
      [] entity_type = "iban" -> is_valid_iban(s)
      [] entity_type = "phone" -> is_valid_phone(s)
      [] entity_type = "email" -> is_valid_email(s)
      [] OTHER -> FALSE

\* the order in which classify_text fills its results
ClassifyOrder == <<"date", "iban", "phone", "email">>

\* a variant that lets a later item of equal key replace the best
RECURSIVE PyMax_LastWins(_, _, _)
PyMax_LastWins(pairs, best, k) ==
    IF k > Len(pairs) THEN best
    ELSE PyMax_LastWins(pairs, IF pairs[k].score >= best.score THEN pairs[k] ELSE best,
                        k + 1)

\* max(pairs, key): the first of the pairs with the largest key
RECURSIVE PyMax(_, _, _)
PyMax(pairs, best, k) ==
    IF k > Len(pairs) THEN best
    ELSE PyMax(pairs, IF pairs[k].score > best.score THEN pairs[k] ELSE best, k + 1)

\* one entry of the results list: the type with its (is_valid, score) pair
ResultEntry(entity_type, r) ==
    [type |-> entity_type, match |-> r[1], score |-> r[2]]

\* the results list, one scored entry per type in ClassifyOrder
ClassifyResults(s) ==
    [k \in 1..4 |->
        The({ResultEntry(ClassifyOrder[k], r) : r \in {score_entity(ClassifyOrder[k], s)}})]

\* the returned dictionary: the best entry's type and score, and the list
ClassifyReturn(results) ==
    The({[best |-> best_type.type, score |-> best_type.score, results |-> results] :
            best_type \in {PyMax(results, results[1], 2)}})

classify_text(s) ==
    The({ClassifyReturn(results) : results \in {ClassifyResults(s)}})

----------------------------------------------------------------------------
(* The matcher: find_matches_for_type and extract_entities. *)

\* the match records of one finditer loop, normalized by the type's normalizer
NormalizeAs(entity_type, raw) ==
    CASE entity_type = "date" -> normalize_date_token(raw)
      [] entity_type = "email" -> normalize_email(raw)
      [] entity_type = "iban" -> normalize_iban(raw)
      [] entity_type = "phone" -> normalize_phone(raw)

\* a variant that keeps the normalized text as the match's text
MatchRecord_RawNormalized(entity_type, raw, span) ==
    [raw |-> NormalizeAs(entity_type, raw), normalized |-> NormalizeAs(entity_type, raw),
     span |-> span]

\* the record of one match: its text, the normalized text and its span
MatchRecord(entity_type, raw, span) ==
    [raw |-> raw, normalized |-> NormalizeAs(entity_type, raw), span |-> span]

MatchRecords(entity_type, regex, s) ==
    The({[k \in 1..Len(spans) |->
             MatchRecord(entity_type, Slice(s, spans[k][1], spans[k][2]), spans[k])] :
            spans \in {FindIter(regex, s, 0)}})

IbanLengthOk(mt) == 12 <= Len(mt.normalized) /\ Len(mt.normalized) <= 34

\* the phone matches the loop does not skip
PhoneKept(mt) ==
    LET digit_count == Len(digits_only(mt.normalized))
    IN  /\ ~(digit_count < 7 \/ digit_count > 15)
        /\ ~ContainsAny(mt.normalized, Letters)
        /\ ~(~ContainsAny(mt.normalized, WS \cup {"+", "(", ")", ".", "-"})
             /\ digit_count > 10)

find_matches_for_type(s, entity_type) ==
    CASE entity_type = "date" ->
             MatchRecords("date", DATE_FIND_REGEXES[1], s)
             \o MatchRecords("date", DATE_FIND_REGEXES[2], s)
      [] entity_type = "email" -> MatchRecords("email", EMAIL_FIND_REGEX, s)
      [] entity_type = "iban" ->
             SelectSeq(MatchRecords("iban", IBAN_FIND_REGEX, s), IbanLengthOk)
      [] entity_type = "phone" ->
             SelectSeq(MatchRecords("phone", PHONE_FIND_REGEX, s), PhoneKept)
      [] OTHER -> <<>>

\* a variant that appends every value, seen or not
UniqueValues_KeepAll(matches) == [k \in 1..Len(matches) |-> matches[k].normalized]

\* the loop "for match in matches" of extract_entities: a value already seen
\* is skipped
RECURSIVE UniqueValues(_)
UniqueValues(matches) ==
    IF matches = <<>> THEN <<>>
    ELSE LET values == UniqueValues(SubSeq(matches, 1, Len(matches) - 1))
             value == matches[Len(matches)].normalized
         IN  IF \E k \in 1..Len(values) : values[k] = value THEN values
             ELSE Append(values, value)

EntityKeys == {"date", "iban", "phone", "email"}

extract_entities(s) ==
    [key \in EntityKeys |-> UniqueValues(find_matches_for_type(s, key))]

----------------------------------------------------------------------------
(* The free-text machine: a text is chosen, one of its characters may be    *)
(* replaced, and one of the entry points is applied to it.                  *)

\* a German IBAN with a correct checksum
IbanDE ==
    <<"D", "E", "8", "9", "3", "7", "0", "4", "0", "0", "4", "4", "0", "5", "3",
      "2", "0", "1", "3", "0", "0", "0">>

\* the shortest IBAN layout, with a correct checksum
IbanNO ==
    <<"N", "O", "9", "3", "8", "6", "0", "1", "1", "1", "1", "7", "9", "4", "7">>

\* the same, as printed in groups
IbanNOSpaced ==
    <<"N", "O", "9", "3", " ", "8", "6", "0", "1", " ", "1", "1", "1", "7", " ",
      "9", "4", "7">>

IbanBE ==
    <<"B", "E", "6", "8", "5", "3", "9", "0", "0", "7", "5", "4", "7", "0", "3",
      "4">>

\* IBAN format with a wrong checksum
IbanBadSum ==
    <<"N", "O", "9", "3", "8", "6", "0", "1", "1", "1", "1", "7", "9", "4", "6">>

DateSlash ==
    <<"1", "5", "/", "0", "3", "/", "2", "0", "2", "4">>

\* a date that is also a phone number
DateDots ==
    <<"0", "1", ".", "0", "2", ".", "2", "0", "2", "4">>

DateIso ==
    <<"2", "0", "2", "4", "-", "0", "3", "-", "1", "5">>

DateShortYear ==
    <<"1", "5", "/", "0", "3", "/", "2", "4">>

\* date-shaped, not a date
DateBadDay ==
    <<"3", "2", ".", "1", "3", ".", "2", "0", "2", "4">>

DateSpaced ==
    <<"1", " ", "/", " ", "2", " ", "/", " ", "2", "0", "2", "4">>

PhonePlus ==
    <<"+", "4", "9", " ", "1", "7", "0", " ", "1", "2", "3", "4", "5", "6", "7">>

PhoneZero ==
    <<"0", "1", "7", "0", "-", "1", "2", "3", "4", "5", "6", "7">>

PhoneContact ==
    <<"C", "o", "n", "t", "a", "c", "t", ":", " ", "+", "4", "9", " ", "1", "7",
      "0", " ", "1", "2", "3", "4", "5", "6", "7", " ", "o", "r", " ", "0", "1",
      "7", "0", "-", "1", "2", "3", "4", "5", "6", "7">>

\* a phone number that occurs twice
PhoneRepeated ==
    <<"0", "1", "7", "0", "-", "1", "2", "3", "4", "5", ";", "+", "4", "9", " ",
      "1", "7", "0", " ", "1", "2", "3", "4", "5", ";", "0", "1", "7", "0", "-",
      "1", "2", "3", "4", "5">>

\* a blank where the dot of the domain should be
EmailSpace ==
    <<"j", "o", "h", "n", ".", "d", "o", "e", "@", "e", "x", "a", "m", "p", "l",
      "e", " ", "c", "o", "m">>

EmailGood ==
    <<"j", "o", "h", "n", ".", "d", "o", "e", "@", "e", "x", "a", "m", "p", "l",
      "e", ".", "c", "o", "m">>

EmailUnderscore ==
    <<"j", "o", "h", "n", ".", "d", "o", "e", "@", "e", "x", "a", "m", "p", "l",
      "e", "_", "c", "o", "m">>

EmailNoDot ==
    <<"j", "o", "h", "n", ".", "d", "o", "e", "@", "e", "x", "a", "m", "p", "l",
      "e", "c", "o", "m">>

EmailSpaced ==
    <<"a", " ", "@", " ", "b", " ", ".", " ", "d", "e", " ", "x", "@", "y", "_",
      "c", "d", " ", "a", "@", "b", ".", "d", "e">>

Empty ==
    <<>>

BaseTexts ==
    {IbanDE, IbanNO, IbanNOSpaced, IbanBE, IbanBadSum,
     DateSlash, DateDots, DateIso, DateShortYear, DateBadDay,
     DateSpaced, PhonePlus, PhoneZero, PhoneContact, PhoneRepeated,
     EmailSpace, EmailGood, EmailUnderscore, EmailNoDot, EmailSpaced,
     Empty}

\* the characters a replacement may put in
MutChars == {"0", "7", "K", "O", "n", " ", "\t", ".", "@", "_"}

\* The repair search of score_email tries every split of a text without "@"
\* and measures the distance to every repair; the email scorer is applied to
\* the texts of at most MaxScanLen characters that hold an "@" or are one of
\* the chosen texts.
MaxScanLen == 22

Scannable(s, unchanged) == Len(s) <= MaxScanLen /\ (Contains(s, "@") \/ unchanged)

NoOut == [op |-> "none"]

Init ==
    /\ text \in BaseTexts
    /\ prev = text
    /\ stage = "input"
    /\ out = NoOut
    /\ BoxIdle /\ ServiceIdle

\* one character of the chosen text is replaced by a different one
Mutate(i, c) ==
    /\ stage = "input"
    /\ prev = text
    /\ i \in 1..Len(text)
    /\ c # text[i]
    /\ text' = [text EXCEPT ![i] = c]
    /\ prev' = text
    /\ UNCHANGED <<stage, out, boxVars, serviceVars>>

Score(entity_type) ==
    /\ stage = "input"
    /\ entity_type = "email" => Scannable(text, prev = text)
    /\ \E r \in {score_entity(entity_type, text)} :
           out' = [op |-> "score", type |-> entity_type,
                   is_valid |-> r[1], score |-> r[2]]
    /\ stage' = "done"
    /\ UNCHANGED <<text, prev, boxVars, serviceVars>>

Classify ==
    /\ stage = "input"
    /\ Scannable(text, prev = text)
    /\ \E r \in {classify_text(text)} :
           out' = [op |-> "classify", best |-> r.best, score |-> r.score,
                   results |-> r.results]
    /\ stage' = "done"
    /\ UNCHANGED <<text, prev, boxVars, serviceVars>>

Extract ==
    /\ stage = "input"
    /\ out' = [op |-> "extract", values |-> extract_entities(text)]
    /\ stage' = "done"
    /\ UNCHANGED <<text, prev, boxVars, serviceVars>>

FindMatches(entity_type) ==
    /\ stage = "input"
    /\ out' = [op |-> "find", type |-> entity_type,
               matches |-> find_matches_for_type(text, entity_type)]
    /\ stage' = "done"
    /\ UNCHANGED <<text, prev, boxVars, serviceVars>>

ScoredTypes == {"date", "iban", "phone", "email", "other"}

Next ==
    \/ \E i \in 1..Len(text), c \in MutChars : Mutate(i, c)
    \/ \E t \in ScoredTypes : Score(t)
    \/ Classify
    \/ Extract
    \/ \E t \in ScoredTypes : FindMatches(t)

Spec == Init /\ [][Next]_vars

----------------------------------------------------------------------------
(* Properties of the free-text machine.                                     *)

\* the IBAN format: 2 letters, 2 digits, 11 to 30 letters or digits
IbanFormat(s) ==
    /\ 15 <= Len(s) /\ Len(s) <= 34
    /\ s[1] \in Upper /\ s[2] \in Upper
    /\ s[3] \in Digits /\ s[4] \in Digits
    /\ \A i \in 5..Len(s) : s[i] \in Upper \cup Digits

Base36 == DigitSeq \o UpperSeq

\* the ISO 7064 numeral of cs (a letter counts as its two-digit value), mod 97
RECURSIVE NumeralMod97(_)
NumeralMod97(cs) ==
    IF cs = <<>> THEN 0
    ELSE LET v == (CHOOSE i \in 1..36 : Base36[i] = cs[Len(cs)]) - 1
             front == NumeralMod97(SubSeq(cs, 1, Len(cs) - 1))
         IN  (front * (IF v < 10 THEN 10 ELSE 100) + v) % 97

\* the remainder of the rearranged numeral of an IBAN
IsoRemainder(iban) ==
    NumeralMod97(SubSeq(iban, 5, Len(iban)) \o SubSeq(iban, 1, 4))

\* C1: a text whose IBAN-normalized form matches the IBAN format is scored
\* (is_valid = true, 1.0) when the mod-97 remainder of its rearranged numeral
\* is 1 and (is_valid = true, 0.7) when it is not; it is never reported invalid.
C1_IbanFormatScore ==
    (out.op = "score" /\ out.type = "iban" /\ IbanFormat(normalize_iban(text)))
        => /\ out.is_valid
           /\ out.score = IF IsoRemainder(normalize_iban(text)) = 1
                          THEN ScoreUnit ELSE 7 * Tenth

\* C1 witness: a changed text of the IBAN format whose remainder is not 1 has
\* been scored valid with 0.7
C1_Witness ==
    /\ out.op = "score" /\ out.type = "iban" /\ text # prev
    /\ IbanFormat(normalize_iban(text))
    /\ IsoRemainder(normalize_iban(text)) # 1
    /\ out.is_valid /\ out.score = 7 * Tenth

\* the order of the types that decides between equal scores
TieOrder == <<"date", "iban", "phone", "email">>

\* C2: classify returns as best the type with the largest of the four
\* per-type scores, reports that score, and among types of equal largest score
\* returns the earliest in the order Date, Iban, Phone, Email.
C2_ClassifyMax ==
    out.op = "classify" =>
        /\ \A k \in 1..4 :
              /\ out.results[k].type = TieOrder[k]
              /\ <<out.results[k].match, out.results[k].score>>
                     = score_entity(TieOrder[k], text)
        /\ \E k \in 1..4 :
              /\ out.best = TieOrder[k]
              /\ out.score = out.results[k].score
              /\ \A j \in 1..4 : out.results[j].score <= out.score
              /\ \A j \in 1..(k - 1) : out.results[j].score < out.score

\* C2 witness: Date and Phone share the largest score and Date is returned
C2_Witness ==
    /\ out.op = "classify"
    /\ out.results[1].score = out.score
    /\ out.results[3].score = out.score
    /\ out.best = "date"

\* C3: classify on a text that is an IBAN of correct format and checksum
\* returns best = Iban with score 1.0, and Date stays below 1.0 on it.
C3_ValidIbanIsBest ==
    (/\ out.op = "classify"
     /\ IbanFormat(normalize_iban(text))
     /\ IsoRemainder(normalize_iban(text)) = 1)
        => /\ out.best = "iban"
           /\ out.score = ScoreUnit
           /\ out.results[1].score < ScoreUnit

\* C3 witness: "DE89370400440532013000" has been classified as Iban with 1.0
C3_Witness ==
    /\ out.op = "classify" /\ text = IbanDE
    /\ out.best = "iban" /\ out.score = ScoreUnit

\* C4 as claimed: classify("john.doe@example com") reports Email invalid with
\* a score above 0.8.
C4_AsClaimed ==
    (out.op = "classify" /\ text = EmailSpace)
        => /\ ~out.results[4].match
           /\ out.results[4].score > 8 * Tenth

\* C4: classify("john.doe@example com") reports Email invalid with score 0.0
\* (no repair candidate passes the strict email grammar: each keeps the space).
C4_EmailSpaceScoresZero ==
    (out.op = "classify" /\ text = EmailSpace)
        => /\ out.results[4].type = "email"
           /\ ~out.results[4].match
           /\ out.results[4].score = 0

\* C4 witness: "john.doe@example com" has been classified
C4_Witness ==
    /\ out.op = "classify" /\ text = EmailSpace /\ prev = text
    /\ out.results[4].type = "email"

\* the index of the first match whose normalized value is v
FirstIndex(matches, v) ==
    CHOOSE k \in 1..Len(matches) :
        /\ matches[k].normalized = v
        /\ \A j \in 1..(k - 1) : matches[j].normalized # v

\* values holds the normalized values of matches, each once, in the order of
\* their first occurrences
UniqueInFirstOrder(values, matches) ==
    /\ {values[k] : k \in 1..Len(values)}
           = {matches[k].normalized : k \in 1..Len(matches)}
    /\ \A i, j \in 1..Len(values) :
           i < j => FirstIndex(matches, values[i]) < FirstIndex(matches, values[j])

\* C5: extract returns for each type the normalized values of the type's
\* matches without duplicates and in the order of first occurrence; for
\* "Contact: +49 170 1234567 or 0170-1234567" the Phone list holds two
\* distinct values and each is a valid phone.
C5_ExtractUnique ==
    out.op = "extract" =>
        /\ \A key \in {"date", "iban", "phone", "email"} :
              UniqueInFirstOrder(out.values[key], find_matches_for_type(text, key))
        /\ text = PhoneContact =>
              /\ Len(out.values["phone"]) = 2
              /\ out.values["phone"][1] # out.values["phone"][2]
              /\ \A k \in 1..2 : is_valid_entity("phone", out.values["phone"][k])

\* C5 witness: a type has more matches than distinct values and they have
\* been extracted
C5_Witness ==
    /\ out.op = "extract"
    /\ \E key \in {"date", "iban", "phone", "email"} :
          /\ Len(find_matches_for_type(text, key)) > Len(out.values[key])
          /\ Len(out.values[key]) >= 2

\* s scores (true, 1.0) as an IBAN
PerfectIban(s) == score_iban(s) = <<TRUE, ScoreUnit>>

\* t is s with one digit replaced by another digit, or one letter by a letter
\* that differs from it whatever the case
DigitOrLetterChanged(s, t) ==
    /\ Len(s) = Len(t)
    /\ \E i \in 1..Len(s) :
          /\ \A j \in 1..Len(s) : j # i => s[j] = t[j]
          /\ \/ s[i] \in Digits /\ t[i] \in Digits /\ s[i] # t[i]
             \/ s[i] \in Letters /\ t[i] \in Letters /\ ToUpper(s[i]) # ToUpper(t[i])

\* C9 as claimed: whenever one character of a text scoring (true, 1.0) as an
\* IBAN is replaced by a different character, the result scores (true, 0.7) or
\* is invalid.
C9_AsClaimed ==
    (out.op = "score" /\ out.type = "iban" /\ prev # text /\ PerfectIban(prev))
        => \/ out.is_valid /\ out.score = 7 * Tenth
           \/ ~out.is_valid

\* C9: whenever one digit of a text scoring (true, 1.0) as an IBAN is replaced
\* by a different digit, or one letter by a letter that differs from it
\* whatever the case, the result scores (true, 0.7) or is invalid.
C9_DigitOrLetterChangeDetected ==
    (/\ out.op = "score" /\ out.type = "iban"
     /\ PerfectIban(prev) /\ DigitOrLetterChanged(prev, text))
        => \/ out.is_valid /\ out.score = 7 * Tenth
           \/ ~out.is_valid

\* C9 witness: a digit of a perfect IBAN was replaced by another digit and
\* the result has been scored (true, 0.7)
C9_Witness ==
    /\ out.op = "score" /\ out.type = "iban"
    /\ PerfectIban(prev) /\ DigitOrLetterChanged(prev, text)
    /\ \E i \in 1..Len(text) : text[i] # prev[i] /\ text[i] \in Digits
    /\ out.is_valid /\ out.score = 7 * Tenth

\* text[start:end] for 0 <= start <= end <= len(text)
Substring(s, start, end) == [k \in 1..(end - start) |-> s[start + k]]

\* the normalizer of an entity type
NormalizerOf(entity_type, s) ==
    CASE entity_type = "date" -> normalize_date_token(s)
      [] entity_type = "iban" -> normalize_iban(s)
      [] entity_type = "phone" -> normalize_phone(s)
      [] entity_type = "email" -> normalize_email(s)

\* C14: every match returned by find_matches(text, entity_type) has a span
\* (start, end) with 0 <= start < end <= len(text), its raw string is
\* text[start:end], and its normalized value is the type's normalizer applied
\* to raw.
C14_MatchSpans ==
    out.op = "find" =>
        \A k \in 1..Len(out.matches) :
            LET mt == out.matches[k]
            IN  /\ 0 <= mt.span[1] /\ mt.span[1] < mt.span[2] /\ mt.span[2] <= Len(text)
                /\ mt.raw = Substring(text, mt.span[1], mt.span[2])
                /\ mt.normalized = NormalizerOf(out.type, mt.raw)

\* C14 witness: a match that starts inside the text and whose normalized value
\* differs from its raw string has been returned
C14_Witness ==
    /\ out.op = "find"
    /\ \E k \in 1..Len(out.matches) :
          /\ out.matches[k].span[1] > 0
          /\ out.matches[k].normalized # out.matches[k].raw

\* the three components of a text with exactly two separators
ThreeParts(s) ==
    LET P == {i \in 1..Len(s) : s[i] \in Seps}
        p == CHOOSE i \in P : \A j \in P : i <= j
        q == CHOOSE i \in P : \A j \in P : j <= i
    IN  <<SubSeq(s, 1, p - 1), SubSeq(s, p + 1, q - 1), SubSeq(s, q + 1, Len(s))>>

AllDigits(s) == s # <<>> /\ \A i \in 1..Len(s) : s[i] \in Digits

\* the strict date layouts as the specification words them: day and month of
\* one or two digits and a year of two or four digits, or a year of four
\* digits first
StrictLayout(s) ==
    /\ Cardinality({i \in 1..Len(s) : s[i] \in Seps}) = 2
    /\ \A k \in 1..3 : AllDigits(ThreeParts(s)[k])
    /\ \/ /\ Len(ThreeParts(s)[1]) \in {1, 2} /\ Len(ThreeParts(s)[2]) \in {1, 2}
          /\ Len(ThreeParts(s)[3]) \in {2, 4}
       \/ /\ Len(ThreeParts(s)[1]) = 4 /\ Len(ThreeParts(s)[2]) \in {1, 2}
          /\ Len(ThreeParts(s)[3]) \in {1, 2}

\* day, month and year of a text of a strict layout
DayMonthYear(s) ==
    IF Len(ThreeParts(s)[1]) = 4
    THEN <<ToInt(ThreeParts(s)[3]), ToInt(ThreeParts(s)[2]), ToInt(ThreeParts(s)[1])>>
    ELSE <<ToInt(ThreeParts(s)[1]), ToInt(ThreeParts(s)[2]), ToInt(ThreeParts(s)[3])>>

InRange(dmy) ==
    /\ 1 <= dmy[1] /\ dmy[1] <= 31
    /\ 1 <= dmy[2] /\ dmy[2] <= 12
    /\ 1900 <= dmy[3] /\ dmy[3] <= 2100

\* C18: a text of one of the two strict date layouts is scored as a Date
\* (true, 1.0) when month is in 1..12, day in 1..31 and year in 1900..2100, and
\* (true, 0.85) when a component is out of range; classify("15/03/2024")
\* returns best = Date with score 1.0.
C18_StrictDateScore ==
    /\ (out.op = "score" /\ out.type = "date" /\ StrictLayout(text))
           => /\ out.is_valid
              /\ out.score = IF InRange(DayMonthYear(text)) THEN ScoreUnit
                             ELSE 85 * (ScoreUnit \div 100)
    /\ (out.op = "classify" /\ text = DateSlash)
           => out.best = "date" /\ out.score = ScoreUnit

\* C19: date scoring applies the date-token normalization before the strict
\* match: for every text, score(Date, text) equals
\* score(Date, normalize(Date, text)).
C19_DateScoreOfNormalized ==
    (out.op = "score" /\ out.type = "date")
        => <<out.is_valid, out.score>> = score_date(normalize_date_token(text))

\* the strict email grammar: a local part, one "@", a domain, and after the
\* domain's last dot a top-level domain of two or more letters
StrictEmail(s) ==
    \E at \in 1..Len(s) : \E dot \in (at + 2)..(Len(s) - 2) :
        /\ s[at] = "@" /\ s[dot] = "."
        /\ at > 1
        /\ \A i \in 1..(at - 1) : s[i] \in Letters \cup Digits \cup {".", "_", "%", "+", "-"}
        /\ \A i \in (at + 1)..(dot - 1) : s[i] \in Letters \cup Digits \cup {".", "-"}
        /\ \A i \in (dot + 1)..Len(s) : s[i] \in Letters

\* score is what the candidates C give for the text cleaned: 1 - d / len(c),
\* clamped, for the minimum distance d and a candidate c at that distance
ScoreAtMinDistance(score, cleaned, C) ==
    \E D \in {[c \in C |-> edit_distance(cleaned, c)]} : \E c \in C :
        /\ \A e \in C : D[c] <= D[e]
        /\ score = clamp_score(FloatOneMinusRatio(D[c], Len(c)))

----------------------------------------------------------------------------
(* The normalizer machine: a text is typed character by character after one *)
(* of a few beginnings, and one of the four normalizers is applied to it.   *)

SeedEmail == <<"a", "@", "b", "_">>

SeedIban == <<"d", "e", " ", "O">>

SeedDate == <<"1", " ", ".">>

NormSeeds == {Empty, SeedEmail, SeedIban, SeedDate}

NormChars == {"a", "O", "1", " ", "\t", "@", ".", "_"}

\* the number of characters typed after the beginning
MaxTyped == 4

InitNorm ==
    /\ text \in NormSeeds
    /\ prev = text
    /\ stage = "typing"
    /\ out = NoOut
    /\ BoxIdle /\ ServiceIdle

Type(c) ==
    /\ stage = "typing"
    /\ Len(text) < Len(prev) + MaxTyped
    /\ text' = Append(text, c)
    /\ UNCHANGED <<prev, stage, out, boxVars, serviceVars>>

Normalize(entity_type) ==
    /\ stage = "typing"
    /\ out' = [op |-> "normalize", type |-> entity_type,
               value |-> NormalizeAs(entity_type, text)]
    /\ stage' = "normalized"
    /\ UNCHANGED <<text, prev, boxVars, serviceVars>>

NextNorm ==
    \/ \E c \in NormChars : Type(c)
    \/ \E t \in EntityKeys : Normalize(t)

SpecNorm == InitNorm /\ [][NextNorm]_vars

\* C6: each of the four normalizers is idempotent: applied to its own
\* output it returns that output unchanged.
C6_NormalizeIdempotent ==
    out.op = "normalize" => NormalizerOf(out.type, out.value) = out.value

\* C6 witness: a normalizer has changed a text
C6_Witness ==
    /\ out.op = "normalize" /\ out.type = "email"
    /\ out.value # text /\ Len(out.value) >= 6 /\ Contains(out.value, ".")
    /\ ~Contains(text, ".")

----------------------------------------------------------------------------
(* The line clusterer.  Coordinates are whole numbers of sixteenths of a    *)
(* pixel, so a box may be lower than one pixel and two boxes may differ by  *)
(* less than a tenth; an overlap ratio is kept as the pair                  *)
(* <<overlap, denominator>> and two ratios are compared as fractions.       *)

\* sixteenths in a pixel: the 1.0 of "or 1.0"
Unit == 16

RECURSIVE FoldSum(_)
FoldSum(ns) == IF ns = <<>> THEN 0 ELSE Head(ns) + FoldSum(Tail(ns))

\* the corner points of the box a detection carries
Corners(min_x, min_y, max_x, max_y) ==
    <<<<min_x, min_y>>, <<max_x, min_y>>, <<max_x, max_y>>, <<min_x, max_y>>>>

MinOf(S) == CHOOSE x \in S : \A y \in S : x <= y

_bbox_metrics(bbox) ==
    LET xs == {bbox[k][1] : k \in 1..Len(bbox)}
        ys == {bbox[k][2] : k \in 1..Len(bbox)}
    IN  [min_x |-> MinOf(xs), max_x |-> MaxOf(xs),
         min_y |-> MinOf(ys), max_y |-> MaxOf(ys),
         height |-> MaxOf(ys) - MinOf(ys)]

\* a variant that takes 1.0 for every denominator below 1.0
OverlapDenom_Floored(line_box, item_box) ==
    Max2(Unit, Min2(line_box.height, item_box.height))

\* min(line_box["height"], item_box["height"]) or 1.0
OverlapDenom(line_box, item_box) ==
    IF Min2(line_box.height, item_box.height) = 0 THEN Unit
    ELSE Min2(line_box.height, item_box.height)

_overlap_ratio(line_box, item_box) ==
    << Max2(0, Min2(line_box.max_y, item_box.max_y)
                   - Max2(line_box.min_y, item_box.min_y)),
       OverlapDenom(line_box, item_box) >>

\* ratio > best_ratio and ratio >= best_ratio, for positive denominators
RatioGreater(a, b) == a[1] * b[2] > b[1] * a[2]

RatioAtLeast(a, b) == a[1] * b[2] >= b[1] * a[2]

\* y_overlap_thresh = 0.5
Y_OVERLAP_THRESH == <<1, 2>>

\* a variant in which a later line of equal ratio replaces the match
RECURSIVE BestLine_LastWins(_, _, _, _, _)
BestLine_LastWins(ls, item, k, matched, best_ratio) ==
    IF k > Len(ls) THEN <<matched, best_ratio>>
    ELSE IF RatioAtLeast(_overlap_ratio(ls[k].box, item.box), best_ratio)
         THEN BestLine_LastWins(ls, item, k + 1, k, _overlap_ratio(ls[k].box, item.box))
         ELSE BestLine_LastWins(ls, item, k + 1, matched, best_ratio)

\* the loop "for line in lines": the index of the matched line (0: None)
\* and best_ratio
RECURSIVE BestLine(_, _, _, _, _)
BestLine(ls, item, k, matched, best_ratio) ==
    IF k > Len(ls) THEN <<matched, best_ratio>>
    ELSE IF RatioGreater(_overlap_ratio(ls[k].box, item.box), best_ratio)
         THEN BestLine(ls, item, k + 1, k, _overlap_ratio(ls[k].box, item.box))
         ELSE BestLine(ls, item, k + 1, matched, best_ratio)

\* a variant that lets the line grow in height only
Grown_HeightOnly(line, item) ==
    [items |-> Append(line.items, item),
     box |-> [min_y |-> Min2(line.box.min_y, item.box.min_y),
              max_y |-> Max2(line.box.max_y, item.box.max_y),
              height |-> Max2(line.box.max_y, item.box.max_y)
                         - Min2(line.box.min_y, item.box.min_y),
              min_x |-> line.box.min_x,
              max_x |-> line.box.max_x]]

\* the matched line with the item appended and its box grown
Grown(line, item) ==
    [items |-> Append(line.items, item),
     box |-> [min_y |-> Min2(line.box.min_y, item.box.min_y),
              max_y |-> Max2(line.box.max_y, item.box.max_y),
              height |-> Max2(line.box.max_y, item.box.max_y)
                         - Min2(line.box.min_y, item.box.min_y),
              min_x |-> Min2(line.box.min_x, item.box.min_x),
              max_x |-> Max2(line.box.max_x, item.box.max_x)]]

NewLine(item) == [items |-> <<item>>, box |-> item.box]

\* a variant that joins the best line whatever its ratio
PlaceAt_AnyRatio(ls, item, best) ==
    IF best[1] # 0
    THEN [ls EXCEPT ![best[1]] = Grown(ls[best[1]], item)]
    ELSE Append(ls, NewLine(item))

\* the lines after the best line was found
PlaceAt(ls, item, best) ==
    IF best[1] # 0 /\ RatioAtLeast(best[2], Y_OVERLAP_THRESH)
    THEN [ls EXCEPT ![best[1]] = Grown(ls[best[1]], item)]
    ELSE Append(ls, NewLine(item))

\* one round of the loop "for item in sorted(items)"
PlaceItem(ls, item) ==
    The({PlaceAt(ls, item, best) : best \in {BestLine(ls, item, 1, 0, <<0, 1>>)}})

\* tuple comparison of two keys
KeyLess(a, b) == a[1] < b[1] \/ (a[1] = b[1] /\ a[2] < b[2])

\* sorted(seq, key=...): stable, an element goes after the elements of
\* smaller key and after the earlier elements of equal key
\* (keys[i] is the key of seq[i])
SortedBy(seq, keys) ==
    LET rank(i) == Cardinality({j \in 1..Len(seq) :
                        \/ KeyLess(keys[j], keys[i])
                        \/ keys[j] = keys[i] /\ j < i}) + 1
    IN  [r \in 1..Len(seq) |-> seq[CHOOSE i \in 1..Len(seq) : rank(i) = r]]

BoxKey(x) == <<x.box.min_y, x.box.min_x>>

MinXKey(x) == <<x.box.min_x, 0>>

\* a variant that takes the items as they come
SortedItems_Unsorted(its) == its

SortedItems(its) == SortedBy(its, [k \in 1..Len(its) |-> BoxKey(its[k])])

\* the sorts that end the grouping
SortedLines(ls) ==
    SortedBy([k \in 1..Len(ls) |->
                 [ls[k] EXCEPT !.items =
                     SortedBy(ls[k].items,
                              [j \in 1..Len(ls[k].items) |-> MinXKey(ls[k].items[j])])]],
             [k \in 1..Len(ls) |-> BoxKey(ls[k])])

RECURSIVE PlaceAll(_, _)
PlaceAll(ls, its) ==
    IF its = <<>> THEN ls ELSE PlaceAll(PlaceItem(ls, Head(its)), Tail(its))

\* a variant that goes on from the lines of the call before
NoLines_Kept == lines

\* lines = []
NoLines == <<>>

_group_items_into_lines(its) == SortedLines(PlaceAll(NoLines, SortedItems(its)))

----------------------------------------------------------------------------
(* The entity locator. *)

\* the characters of the first k tokens joined by single blanks
RECURSIVE JoinedText(_, _)
JoinedText(tokens, k) ==
    IF k = 0 THEN <<>>
    ELSE IF k = 1 THEN tokens[1].text
    ELSE JoinedText(tokens, k - 1) \o <<" ">> \o tokens[k].text

\* <<line text, offsets>>, an offset being <<start, end, idx>>
_line_text_and_offsets(tokens) ==
    << JoinedText(tokens, Len(tokens)),
       [k \in 1..Len(tokens) |->
           << Len(JoinedText(tokens, k)) - Len(tokens[k].text),
              Len(JoinedText(tokens, k)), k - 1 >>] >>

\* a variant that keeps the tokens that lie inside the span
_token_indices_for_span_Inside(offsets, start, end) ==
    SelectSeq([k \in 1..Len(offsets) |-> offsets[k]],
              LAMBDA o : o[1] >= start /\ o[2] <= end)

\* the offsets of the tokens the span overlaps (the code keeps their idx)
_token_indices_for_span(offsets, start, end) ==
    SelectSeq([k \in 1..Len(offsets) |-> offsets[k]],
              LAMBDA o : o[2] > start /\ o[1] < end)

_merge_boxes(tokens) ==
    [min_x |-> MinOf({tokens[k].box.min_x : k \in 1..Len(tokens)}),
     min_y |-> MinOf({tokens[k].box.min_y : k \in 1..Len(tokens)}),
     max_x |-> MaxOf({tokens[k].box.max_x : k \in 1..Len(tokens)}),
     max_y |-> MaxOf({tokens[k].box.max_y : k \in 1..Len(tokens)})]

\* sum(...) / len(selected), kept as the pair <<sum, len>>
MeanConf(selected) ==
    << FoldSum([k \in 1..Len(selected) |-> selected[k].conf]), Len(selected) >>

\* a variant that compares the coordinates as they are
Round1_Exact(q) == q

\* round(x, 1) of a coordinate of q sixteenths, in tenths: the nearest
\* tenth, and the even one of two equally near
Round1(q) ==
    IF (10 * q) % Unit < Unit \div 2 THEN (10 * q) \div Unit
    ELSE IF (10 * q) % Unit > Unit \div 2 THEN (10 * q) \div Unit + 1
    ELSE IF ((10 * q) \div Unit) % 2 = 0 THEN (10 * q) \div Unit
    ELSE (10 * q) \div Unit + 1

DedupeKey(result) ==
    << result.value, Round1(result.box.min_x), Round1(result.box.min_y),
       Round1(result.box.max_x), Round1(result.box.max_y) >>

\* a variant that appends every result, seen or not
_dedupe_results_KeepAll(results) == results

\* the positions whose key no earlier position has
UnseenPositions(keys) ==
    SelectSeq([k \in 1..Len(keys) |-> k],
              LAMBDA k : \A j \in 1..(k - 1) : keys[j] # keys[k])

\* the results whose key no earlier result has
_dedupe_results(results) ==
    LET unique == UnseenPositions([k \in 1..Len(results) |-> DedupeKey(results[k])])
    IN  [k \in 1..Len(unique) |-> results[unique[k]]]

\* min_score is None
NoMinScore == -1

\* the result dict of a match that was not skipped
ResultOf(entity_type, mt, r, selected) ==
    [value |-> mt.normalized, raw |-> mt.raw, box |-> _merge_boxes(selected),
     conf |-> MeanConf(selected), score |-> r[2], match |-> r[1], type |-> entity_type]

\* a variant whose validity test is the scorer's flag
PassesValidity_ScorerFlag(entity_type, value, r, require_valid) ==
    ~require_valid \/ r[1]

\* not (require_valid and not is_valid_entity(entity_type, value))
PassesValidity(entity_type, value, r, require_valid) ==
    ~require_valid \/ is_valid_entity(entity_type, value)

\* the body of the loop "for match in matches" once the score r is known:
\* the results it appends
ScoredMatch(tokens, offsets, entity_type, mt, r, min_score, require_valid) ==
    IF min_score # NoMinScore /\ r[2] < min_score THEN <<>>
    ELSE IF ~PassesValidity(entity_type, mt.normalized, r, require_valid) THEN <<>>
    ELSE The({IF token_indices = <<>> THEN <<>>
              ELSE <<ResultOf(entity_type, mt, r,
                              [k \in 1..Len(token_indices) |->
                                  tokens[token_indices[k][3] + 1]])>> :
                 token_indices \in
                     {_token_indices_for_span(offsets, mt.span[1], mt.span[2])}})

\* the results one line contributes
LineResults(tokens, lo, entity_type, min_score, require_valid) ==
    The({Flatten([k \in 1..Len(matches) |->
                     The({ScoredMatch(tokens, lo[2], entity_type, matches[k], r,
                                      min_score, require_valid) :
                             r \in {score_entity(entity_type, matches[k].normalized)}})]) :
            matches \in {find_matches_for_type(lo[1], entity_type)}})

\* the results of all lines, before deduplication
AllResults(ls, entity_type, min_score, require_valid) ==
    Flatten([k \in 1..Len(ls) |->
                LineResults(ls[k].items, _line_text_and_offsets(ls[k].items),
                            entity_type, min_score, require_valid)])

\* a variant that returns the results in the order of the lines
SortedResults_Unsorted(results) == results

\* results.sort(key=(box.min_y, box.min_x))
SortedResults(results) ==
    SortedBy(results, [k \in 1..Len(results) |-> BoxKey(results[k])])

_locate_entities_in_lines(ls, entity_type, min_score, require_valid) ==
    SortedResults(_dedupe_results(AllResults(ls, entity_type, min_score, require_valid)))
\* an item as read_text_boxes builds it from a detection; the box is given
\* in pixels as {min_x, min_y, max_x, max_y}
Item(t, min_x, min_y, max_x, max_y) ==
    [text |-> t, conf |-> 90,
     box |-> _bbox_metrics(Corners(min_x * Unit, min_y * Unit, max_x * Unit, max_y * Unit))]

\* an item whose box is given in sixteenths of a pixel
FineItem(t, min_x, min_y, max_x, max_y) ==
    [text |-> t, conf |-> 60, box |-> _bbox_metrics(Corners(min_x, min_y, max_x, max_y))]

TokA == Item(<<"a">>, 0, 0, 10, 10)

TokB == Item(<<"b">>, 0, 20, 10, 30)

TokC == Item(<<"c">>, 5, 2, 10, 12)

\* overlaps TokA by a fifth of its height
TokD == Item(<<"d">>, 12, 8, 20, 18)

\* one pixel high, inside both TokA and TokD
TokE == Item(<<"e">>, 22, 9, 30, 10)

\* no height
TokF == Item(<<"f">>, 3, 5, 8, 5)

\* half a pixel high
TokG == FineItem(<<"g">>, 176, 4, 240, 12)

\* a tall token, and two tokens that begin at the same point below its middle
TokP == Item(<<"p">>, 0, 0, 10, 20)

TokS == Item(<<"s">>, 20, 15, 30, 22)

TokT == Item(<<"t">>, 20, 15, 30, 27)

TokenPool == {TokA, TokB, TokC, TokD, TokE, TokF, TokG, TokP, TokS, TokT}

MaxTokens == 3

InitCluster ==
    /\ items = <<>> /\ queue = <<>> /\ lines = <<>>
    /\ placed = [op |-> "none"] /\ phase = "collect"
    /\ found = [op |-> "none"] /\ runs = <<>>
    /\ detections = <<>> /\ calls = <<>> /\ gathered = <<>>
    /\ TextIdle /\ ServiceIdle

\* one more detection reaches the clusterer
Detect(item) ==
    /\ phase = "collect"
    /\ Len(items) < MaxTokens
    /\ \A k \in 1..Len(items) : items[k] # item
    /\ items' = Append(items, item)
    /\ UNCHANGED <<queue, lines, placed, phase, found, runs, detections, calls, gathered, textVars, serviceVars>>

\* _group_items_into_lines begins: lines = [] and the items are sorted
StartGrouping ==
    /\ phase = "collect"
    /\ queue' = SortedItems(items)
    /\ lines' = NoLines
    /\ phase' = IF items = <<>> THEN "clustered" ELSE "placing"
    /\ UNCHANGED <<items, placed, found, runs, detections, calls, gathered, textVars, serviceVars>>

\* one round of the loop over the sorted items, with the ratios it computes;
\* the round of the last item goes on to the sorts and the return
Place ==
    /\ phase = "placing"
    /\ \E after \in {PlaceItem(lines, Head(queue))} :
          /\ placed' = [op |-> "place", item |-> Head(queue), before |-> lines,
                        ratios |-> [k \in 1..Len(lines) |->
                                       _overlap_ratio(lines[k].box, Head(queue).box)],
                        after |-> after]
          /\ lines' = IF Len(queue) = 1 THEN SortedLines(after) ELSE after
    /\ queue' = Tail(queue)
    /\ phase' = IF Len(queue) = 1 THEN "clustered" ELSE "placing"
    /\ UNCHANGED <<items, found, runs, detections, calls, gathered, textVars, serviceVars>>

NextCluster ==
    \/ \E item \in TokenPool : Detect(item)
    \/ StartGrouping
    \/ Place

SpecCluster == InitCluster /\ [][NextCluster]_vars

\* the lines of ls whose overlap ratio with the item is the highest
HighestRatioLines(ls, item) ==
    {k \in 1..Len(ls) :
        \A j \in 1..Len(ls) :
            RatioAtLeast(_overlap_ratio(ls[k].box, item.box),
                         _overlap_ratio(ls[j].box, item.box))}

\* line is old with the item appended and the box of both
JoinedBy(line, old, item) ==
    /\ line.items = Append(old.items, item)
    /\ line.box.min_x = Min2(old.box.min_x, item.box.min_x)
    /\ line.box.max_x = Max2(old.box.max_x, item.box.max_x)
    /\ line.box.min_y = Min2(old.box.min_y, item.box.min_y)
    /\ line.box.max_y = Max2(old.box.max_y, item.box.max_y)

\* the greedy rule: the item joins the earliest of the lines of highest
\* ratio when that ratio is at least 0.5, and else starts a line of its own
GreedyRule(before, item, after) ==
    LET H == HighestRatioLines(before, item)
        joins == /\ H # {}
                 /\ \A k \in H : 2 * _overlap_ratio(before[k].box, item.box)[1]
                                     >= _overlap_ratio(before[k].box, item.box)[2]
    IN  IF joins
        THEN /\ Len(after) = Len(before)
             /\ \A k \in 1..Len(before) :
                   IF k = MinOf(H) THEN JoinedBy(after[k], before[k], item)
                   ELSE after[k] = before[k]
        ELSE /\ Len(after) = Len(before) + 1
             /\ \A k \in 1..Len(before) : after[k] = before[k]
             /\ after[Len(after)].items = <<item>>
             /\ after[Len(after)].box = item.box

\* C7: tokens are processed in (min_y, min_x) order; each token is appended
\* to the existing line of highest vertical-overlap ratio when that ratio is
\* at least 0.5 (the earliest-created line on ties) and otherwise starts a new
\* line holding only that token; boxes {0,0,10,10} and {0,20,10,30} give two
\* lines, boxes {0,0,10,10} and {5,2,10,12} give one line, and in the result
\* the tokens of every line are in nondecreasing min_x order.
C7_GreedyClustering ==
    /\ placed.op = "place" =>
           /\ GreedyRule(placed.before, placed.item, placed.after)
           /\ \A k \in 1..Len(queue) : ~KeyLess(BoxKey(queue[k]), BoxKey(placed.item))
    /\ phase = "placing" =>
           \A j, k \in 1..Len(queue) :
               j < k => ~KeyLess(BoxKey(queue[k]), BoxKey(queue[j]))
    /\ phase = "clustered" =>
           /\ \A k \in 1..Len(lines) : \A i, j \in 1..Len(lines[k].items) :
                  i < j => lines[k].items[i].box.min_x <= lines[k].items[j].box.min_x
           /\ {items[k] : k \in 1..Len(items)} \in {{TokA, TokB}} => Len(lines) = 2
           /\ {items[k] : k \in 1..Len(items)} \in {{TokA, TokC}} =>
                  Len(lines) = 1 /\ Len(lines[1].items) = 2

\* C7 witness: a token had the same highest ratio with two lines and joined
\* the earlier one
C7_Witness ==
    /\ placed.op = "place"
    /\ Cardinality(HighestRatioLines(placed.before, placed.item)) = 2
    /\ Len(placed.after) = 2
    /\ Len(placed.after[1].items) = 2

\* the orders in which n items can come
Orders(n) ==
    {f \in [1..n -> 1..n] : \A i, j \in 1..n : i # j => f[i] # f[j]}

\* the lines, each taken as the set of its token texts
LineSets(ls) ==
    {{ls[k].items[j].text : j \in 1..Len(ls[k].items)} : k \in 1..Len(ls)}

\* the result is the same set of lines whatever the order of the input
SameForEveryOrder ==
    \A f \in Orders(Len(items)) :
        LineSets(_group_items_into_lines([k \in 1..Len(items) |-> items[f[k]]]))
            = LineSets(lines)

\* the vertical extents of different lines do not overlap
WellSeparated(ls) ==
    \A j, k \in 1..Len(ls) :
        j # k => Min2(ls[j].box.max_y, ls[k].box.max_y)
                     <= Max2(ls[j].box.min_y, ls[k].box.min_y)

\* no two items begin at the same point
DistinctKeys(its) ==
    \A j, k \in 1..Len(its) : j # k => BoxKey(its[j]) # BoxKey(its[k])

----------------------------------------------------------------------------
(* Positioned extraction: read_text_boxes once the OCR engine has answered. *)

\* a variant that begins with the dates
ENTITY_TYPES_DateFirst == <<"date", "iban", "email", "phone">>

ENTITY_TYPES == <<"iban", "email", "phone", "date">>

CATEGORY_MAP(entity_type) ==
    CASE entity_type = "iban" -> "iban"
      [] entity_type = "email" -> "emails"
      [] entity_type = "phone" -> "phone-numbers"
      [] entity_type = "date" -> "date"

CANDIDATE_MIN_SCORE(entity_type) ==
    CASE entity_type = "date" -> 5 * (ScoreUnit \div 10)
      [] entity_type = "iban" -> 5 * (ScoreUnit \div 10)
      [] entity_type = "phone" -> 6 * (ScoreUnit \div 10)
      [] entity_type = "email" -> 5 * (ScoreUnit \div 10)

\* a variant that keeps the items of the call before
NoItems_Kept == items

\* items = []
NoItems == <<>>

\* the loop over the detections: a detection with text and four corner
\* points becomes an item
ItemsOf(dets) ==
    NoItems \o
    The({[k \in 1..Len(kept) |->
             [text |-> Strip(kept[k].text), conf |-> kept[k].conf,
              box |-> _bbox_metrics(kept[k].coords)]] :
            kept \in {SelectSeq(dets, LAMBDA det : Strip(det.text) # <<>>
                                                    /\ Len(det.coords) >= 4)}})

\* the box dict of one result
BoxOf(result) ==
    [x |-> result.box.min_x, y |-> result.box.min_y,
     width |-> Max2(0, result.box.max_x - result.box.min_x),
     height |-> Max2(0, result.box.max_y - result.box.min_y),
     text |-> result.value, confidence |-> result.conf,
     category |-> CATEGORY_MAP(result.type)]

\* a detection of the OCR engine; the box is given in pixels
Detection(t, min_x, min_y, max_x, max_y) ==
    [coords |-> Corners(min_x * Unit, min_y * Unit, max_x * Unit, max_y * Unit),
     text |-> t, conf |-> 90]

\* a detection whose box is given in sixteenths of a pixel
FineDetection(t, min_x, min_y, max_x, max_y) ==
    [coords |-> Corners(min_x, min_y, max_x, max_y), text |-> t, conf |-> 60]

\* an IBAN read as four groups, and below it an IBAN whose check digits are
\* wrong
SceneIbans ==
    << Detection(<<"N", "O", "9", "3">>, 0, 0, 10, 10),
       Detection(<<"8", "6", "0", "1">>, 12, 0, 22, 10),
       Detection(<<"1", "1", "1", "7">>, 24, 0, 34, 10),
       Detection(<<"9", "4", "7">>, 36, 0, 46, 10),
       Detection(<<"N", "O", "9", "3", "8", "6", "0", "1", "1", "1", "1", "7", "9", "4",
                   "6">>, 0, 20, 40, 30) >>

\* an address in brackets that was detected twice, the second time a
\* sixteenth of a pixel further right and higher; a detection of blanks, one without
\* corner points, and to the right, a little higher, an address written
\* with "_"
SceneEmails ==
    << FineDetection(<<"(", "a", "@", "b", ".", "d", "e", ")">>, 1, 4, 321, 160),
       FineDetection(<<"(", "a", "@", "b", ".", "d", "e", ")">>, 2, 3, 322, 160),
       Detection(<<" ", " ">>, 30, 0, 40, 10),
       [coords |-> <<>>, text |-> <<"x">>, conf |-> 90],
       Detection(<<" ", "x", "@", "y", "_", "c", "d">>, 30, 0, 50, 10) >>

\* two dates on one line, the right one a little higher than the left one,
\* and a date with a two-digit year below them
SceneDates ==
    << Detection(<<"1", "5", "/", "0", "3", "/", "2", "0", "2", "4", ",">>, 0, 2, 10, 12),
       Detection(<<"0", "1", ".", "0", "2", ".", "2", "0", "2", "4">>, 12, 0, 22, 10),
       Detection(<<"1", "2", "-", "1", "2", "-", "9", "9">>, 0, 20, 10, 30) >>

\* a phone number, and one behind a label
ScenePhones ==
    << Detection(<<"0", "1", "7", "0", "-", "1", "2", "3", "4", "5", "6", "7">>, 0, 0, 30, 10),
       Detection(<<"T", "e", "l", ":", "0", "1", "7", "0", "-", "1", "2", "3", "4", "5",
                   "6", "7">>, 0, 20, 30, 30) >>

\* text that holds no entity
SceneWords ==
    << Detection(<<"H", "e", "l", "l", "o">>, 0, 0, 10, 10),
       Detection(<<"w", "o", "r", "l", "d">>, 12, 0, 22, 10) >>

Scenes == {SceneIbans, SceneEmails, SceneDates, ScenePhones, SceneWords, <<>>}

\* the thresholds the locator is called with
MinScores == {NoMinScore, 5 * (ScoreUnit \div 10), 8 * (ScoreUnit \div 10), ScoreUnit}

MaxRuns == 2

InitLocate ==
    /\ detections \in Scenes
    /\ items = <<>> /\ queue = <<>> /\ lines = <<>>
    /\ placed = [op |-> "none"] /\ phase = "detected"
    /\ found = [op |-> "none"] /\ runs = <<>>
    /\ calls = <<>> /\ gathered = <<>>
    /\ TextIdle /\ ServiceIdle

\* the detections become items
CollectItems ==
    /\ phase = "detected"
    /\ Len(runs) < MaxRuns
    /\ items' = ItemsOf(detections)
    /\ calls' = <<>>
    /\ gathered' = <<>>
    /\ phase' = "items"
    /\ UNCHANGED <<queue, lines, placed, found, runs, detections, textVars, serviceVars>>

\* lines = _group_items_into_lines(items, y_overlap_thresh=0.5)
GroupLines ==
    /\ phase = "items"
    /\ lines' = _group_items_into_lines(items)
    /\ calls' = Append(calls, "cluster")
    /\ phase' = "lines"
    /\ UNCHANGED <<items, queue, placed, found, runs, detections, gathered, textVars,
                   serviceVars>>

\* what one call of the locator leaves: its arguments, the results before
\* deduplication and the list returned
LocatorCall(ls, entity_type, min_score, require_valid) ==
    [op |-> "locate", type |-> entity_type, min_score |-> min_score,
     require_valid |-> require_valid, lines |-> ls,
     produced |-> AllResults(ls, entity_type, min_score, require_valid),
     results |-> _locate_entities_in_lines(ls, entity_type, min_score, require_valid)]

\* one round of "for entity_type in ENTITY_TYPES"
LocatePass ==
    /\ phase = "lines"
    /\ Len(calls) <= Len(ENTITY_TYPES)
    /\ \E call \in {LocatorCall(lines, ENTITY_TYPES[Len(calls)],
                               CANDIDATE_MIN_SCORE(ENTITY_TYPES[Len(calls)]), FALSE)} :
          /\ found' = call
          /\ gathered' = gathered \o call.results
          /\ calls' = Append(calls, call.type)
    /\ UNCHANGED <<items, queue, lines, placed, phase, runs, detections, textVars,
                   serviceVars>>

\* the boxes are built and returned
BuildBoxes ==
    /\ phase = "lines"
    /\ Len(calls) = Len(ENTITY_TYPES) + 1
    /\ runs' = Append(runs, [ok |-> TRUE, status |-> 200,
                             boxes |-> [k \in 1..Len(gathered) |-> BoxOf(gathered[k])],
                             calls |-> calls, lines |-> lines])
    /\ phase' = "detected"
    /\ UNCHANGED <<items, queue, lines, placed, found, detections, calls, gathered,
                   textVars, serviceVars>>

\* a call of _locate_entities_in_lines on the lines the clusterer returned,
\* with any arguments
Locate(entity_type, min_score, require_valid) ==
    /\ phase = "lines"
    /\ calls = <<"cluster">>
    /\ found' = LocatorCall(lines, entity_type, min_score, require_valid)
    /\ UNCHANGED <<items, queue, lines, placed, phase, runs, detections, calls, gathered,
                   textVars, serviceVars>>

NextLocate ==
    \/ CollectItems
    \/ GroupLines
    \/ LocatePass
    \/ BuildBoxes
    \/ \E entity_type \in {"iban", "email", "phone", "date"}, min_score \in MinScores,
          require_valid \in BOOLEAN : Locate(entity_type, min_score, require_valid)

SpecLocate == InitLocate /\ [][NextLocate]_vars

----------------------------------------------------------------------------
(* What the locator returns. *)

\* where token j of a line begins in the line text: after the tokens before
\* it and one blank for each of them
TokenStart(tokens, j) == FoldSum([i \in 1..(j - 1) |-> Len(tokens[i].text) + 1])

TokenEnd(tokens, j) == TokenStart(tokens, j) + Len(tokens[j].text)

\* the tokens whose range [start, end) overlaps the span
Overlapping(tokens, span) ==
    {j \in 1..Len(tokens) : TokenEnd(tokens, j) > span[1] /\ TokenStart(tokens, j) < span[2]}

\* a match is discarded; byScorer says whose verdict require_valid asks for:
\* the flag of the Scorer, or is_valid_entity
Discarded(tokens, entity_type, mt, min_score, require_valid, byScorer) ==
    \E r \in {score_entity(entity_type, mt.normalized)} :
        \/ min_score # NoMinScore /\ r[2] < min_score
        \/ /\ require_valid
           /\ ~(IF byScorer THEN r[1] ELSE is_valid_entity(entity_type, mt.normalized))
        \/ Overlapping(tokens, mt.span) = {}

\* the matches of one line that are not discarded, with their tokens
LineSurvivors(tokens, entity_type, min_score, require_valid, byScorer) ==
    The({[k \in 1..Len(kept) |-> [mt |-> kept[k], tokens |-> tokens]] :
            kept \in {SelectSeq(find_matches_for_type(JoinedText(tokens, Len(tokens)),
                                                      entity_type),
                                LAMBDA mt : ~Discarded(tokens, entity_type, mt, min_score,
                                                       require_valid, byScorer))}})

\* the matches of all lines that are not discarded, line after line
Survivors(ls, entity_type, min_score, require_valid, byScorer) ==
    Flatten([k \in 1..Len(ls) |->
                LineSurvivors(ls[k].items, entity_type, min_score, require_valid, byScorer)])

\* the results before deduplication are the given matches, one for one
ProducedFrom(produced, survivors) ==
    /\ Len(produced) = Len(survivors)
    /\ \A k \in 1..Len(produced) :
          /\ produced[k].value = survivors[k].mt.normalized
          /\ produced[k].raw = survivors[k].mt.raw

\* C10 as stated: the locator discards a match exactly when its score is
\* below the given min_score, or require_valid is set and the Scorer reports
\* the value invalid, or its span maps to no token
C10_AsClaimed ==
    found.op = "locate" =>
        ProducedFrom(found.produced,
                     Survivors(found.lines, found.type, found.min_score,
                               found.require_valid, TRUE))

\* C10: the locator discards a match exactly when its score is below the
\* given min_score, or require_valid is set and is_valid_entity rejects the
\* value, or its span maps to no token
C10_DiscardsByValidator ==
    found.op = "locate" =>
        ProducedFrom(found.produced,
                     Survivors(found.lines, found.type, found.min_score,
                               found.require_valid, FALSE))

\* C10: a call with require_valid and a threshold that kept one IBAN and
\* discarded another one the Scorer calls valid and scores above the threshold
C10_Witness ==
    /\ found.op = "locate" /\ found.type = "iban"
    /\ found.require_valid /\ found.min_score # NoMinScore
    /\ found.produced # <<>>
    /\ \E k \in 1..Len(found.lines) :
          \E tokens \in {found.lines[k].items} :
             \E matches \in {find_matches_for_type(JoinedText(tokens, Len(tokens)), "iban")} :
                \E j \in 1..Len(matches) :
                   \E r \in {score_entity("iban", matches[j].normalized)} :
                      /\ r[1] /\ r[2] >= found.min_score
                      /\ \A i \in 1..Len(found.produced) :
                            found.produced[i].raw # matches[j].raw

\* the box around the given tokens
UnionBox(tokens, J) ==
    [min_x |-> MinOf({tokens[j].box.min_x : j \in J}),
     min_y |-> MinOf({tokens[j].box.min_y : j \in J}),
     max_x |-> MaxOf({tokens[j].box.max_x : j \in J}),
     max_y |-> MaxOf({tokens[j].box.max_y : j \in J})]

\* C11: a match the locator keeps has the box around exactly the tokens whose
\* range in the line text overlaps its span, the range of a token is where
\* its text stands in the line text, and a match that overlaps no token is
\* left out
C11_OverlappingTokens ==
    found.op = "locate" =>
        \E survivors \in {Survivors(found.lines, found.type, found.min_score,
                                     found.require_valid, FALSE)} :
            /\ Len(found.produced) = Len(survivors)
            /\ \A k \in 1..Len(survivors) :
                  \E tokens \in {survivors[k].tokens}, span \in {survivors[k].mt.span} :
                     /\ Overlapping(tokens, span) # {}
                     /\ found.produced[k].box = UnionBox(tokens, Overlapping(tokens, span))
                     /\ \A j \in 1..Len(tokens) :
                           Slice(JoinedText(tokens, Len(tokens)), TokenStart(tokens, j),
                                 TokenEnd(tokens, j)) = tokens[j].text

\* C11: the locator kept a match that spans several tokens of a line that
\* holds more, and one that covers a part of its token only
C11_Witness ==
    /\ found.op = "locate"
    /\ \E k \in 1..Len(found.lines) :
          \E tokens \in {found.lines[k].items} :
             \E survivors \in {LineSurvivors(tokens, found.type, found.min_score,
                                            found.require_valid, FALSE)} :
                /\ Len(found.produced) >= Len(survivors)
                /\ \E i \in 1..Len(survivors) :
                      \E J \in {Overlapping(tokens, survivors[i].mt.span)} :
                         \/ Cardinality(J) >= 2
                         \/ \E j \in J : TokenEnd(tokens, j) > survivors[i].mt.span[2]

\* how far q sixteenths are from t tenths, in units of 1/160
TenthGap(q, t) == IF 10 * q >= Unit * t THEN 10 * q - Unit * t ELSE Unit * t - 10 * q

\* the nearest tenth of q sixteenths, the even one of two equally near
NearestTenth(q) ==
    CHOOSE t \in {(10 * q) \div Unit, (10 * q) \div Unit + 1} :
        \A u \in {(10 * q) \div Unit, (10 * q) \div Unit + 1} :
            \/ TenthGap(q, t) < TenthGap(q, u)
            \/ TenthGap(q, t) = TenthGap(q, u) /\ (u = t \/ t % 2 = 0)

\* value and box to one decimal
RoundedKey(result) ==
    << result.value, NearestTenth(result.box.min_x), NearestTenth(result.box.min_y),
       NearestTenth(result.box.max_x), NearestTenth(result.box.max_y) >>

\* C12: the list the locator returns holds no two entities with the same
\* value and box to one decimal, holds for each such key the first entity
\* produced with it, and is in nondecreasing (box.min_y, box.min_x) order
C12_UniqueFirstSorted ==
    found.op = "locate" =>
        /\ \A i, j \in 1..Len(found.results) :
              i # j => RoundedKey(found.results[i]) # RoundedKey(found.results[j])
        /\ \A k \in 1..Len(found.produced) :
              (\A j \in 1..(k - 1) :
                  RoundedKey(found.produced[j]) # RoundedKey(found.produced[k]))
              <=> (\E i \in 1..Len(found.results) : found.results[i] = found.produced[k])
        /\ \A i \in 1..Len(found.results) :
              \E k \in 1..Len(found.produced) : found.results[i] = found.produced[k]
        /\ \A i \in 1..(Len(found.results) - 1) :
              ~KeyLess(BoxKey(found.results[i + 1]), BoxKey(found.results[i]))

\* C12: a call that produced two entities with one key and different boxes,
\* one coordinate lying half way between two tenths, and returned two
\* entities in the other order than it produced them
C12_Witness ==
    /\ found.op = "locate"
    /\ \E i, j \in 1..Len(found.produced) :
          /\ i < j
          /\ RoundedKey(found.produced[i]) = RoundedKey(found.produced[j])
          /\ found.produced[i].box # found.produced[j].box
          /\ NearestTenth(found.produced[i].box.min_y) * Unit
                 = 10 * found.produced[i].box.min_y - Unit \div 2
    /\ \E i, j \in 1..Len(found.results) :
          /\ i < j
          /\ \E a, b \in 1..Len(found.produced) :
                a < b /\ found.results[i] = found.produced[b]
                      /\ found.results[j] = found.produced[a]

\* the boxes of the results the locator returns for the type on the lines,
\* called as read_text_boxes calls it
BoxesFor(ls, entity_type) ==
    The({[k \in 1..Len(rs) |-> BoxOf(rs[k])] :
            rs \in {_locate_entities_in_lines(ls, entity_type,
                                             CANDIDATE_MIN_SCORE(entity_type), FALSE)}})

\* where a category stands in the order Iban, Email, Phone, Date
CategoryRank(category) ==
    CASE category = "iban" -> 1
      [] category = "emails" -> 2
      [] category = "phone-numbers" -> 3
      [] category = "date" -> 4

\* C13: positioned extraction calls the clusterer once, then the locator
\* once for each of Iban, Email, Phone, Date in this order on the lines the
\* clusterer returned, and returns the four result lists one after the
\* other, so that the categories of the boxes never step back in this order
C13_OnePassPerTypeInOrder ==
    /\ \E done \in 0..5 : calls = SubSeq(<<"cluster", "iban", "email", "phone", "date">>, 1, done)
    /\ (calls # <<>> /\ phase = "lines") => lines = _group_items_into_lines(items)
    /\ (found.op = "locate" /\ Len(calls) >= 2) => found.lines = lines
    /\ \A n \in 1..Len(runs) :
          /\ runs[n].calls = <<"cluster", "iban", "email", "phone", "date">>
          /\ runs[n].boxes = BoxesFor(runs[n].lines, "iban") \o BoxesFor(runs[n].lines, "email")
                             \o BoxesFor(runs[n].lines, "phone") \o BoxesFor(runs[n].lines, "date")
          /\ \A i, j \in 1..Len(runs[n].boxes) :
                i < j => CategoryRank(runs[n].boxes[i].category)
                            <= CategoryRank(runs[n].boxes[j].category)

\* C13: an extraction has returned boxes of two categories
C13_Witness ==
    /\ runs # <<>>
    /\ \E i, j \in 1..Len(runs[1].boxes) :
          runs[1].boxes[i].category # runs[1].boxes[j].category

----------------------------------------------------------------------------
(* The OCR service: concurrent requests to read_text_from_upload and       *)
(* read_text_boxes, which share the reader and the reader lock.            *)

\* the requests the server works on at a time
NumWorkers == 2

\* what an entry point returns
Response(ok, status, error, boxes, txt) ==
    [ok |-> ok, status |-> status, error |-> error, boxes |-> boxes, text |-> txt]

ErrorResponse(status, error) == Response(FALSE, status, error, <<>>, <<>>)

\* a variant of the guardrail that answers as if nothing had been found
Guardrail_NothingFound(kind) == Response(TRUE, 200, "none", <<>>, <<>>)

\* except Exception of the two entry points
Guardrail(kind) ==
    ErrorResponse(500, IF kind = "boxes" THEN "ocr-boxes-failed" ELSE "ocr-failed")

\* the boxes read_text_boxes returns for the detections
BoxesOfDetections(dets) ==
    The({Flatten([k \in 1..Len(ENTITY_TYPES) |-> BoxesFor(ls, ENTITY_TYPES[k])]) :
            ls \in {_group_items_into_lines(ItemsOf(dets))}})

\* "\n".join(line.strip() for line in detected_lines if str(line).strip())
RECURSIVE JoinLines(_)
JoinLines(ls) ==
    IF ls = <<>> THEN <<>>
    ELSE IF Len(ls) = 1 THEN ls[1]
    ELSE ls[1] \o <<"\n">> \o JoinLines(Tail(ls))

TextOfDetections(dets) ==
    JoinLines(SelectSeq([k \in 1..Len(dets) |-> Strip(dets[k].text)], LAMBDA t : t # <<>>))

\* the answer of an entry point to what readtext returned
Success(kind, dets) ==
    IF kind = "boxes" THEN Response(TRUE, 200, "none", BoxesOfDetections(dets), <<>>)
    ELSE Response(TRUE, 200, "none", <<>>, TextOfDetections(dets))

\* a variant of the lock that never makes a thread wait
CanAcquire_Always(l) == TRUE

\* with _reader_lock: a thread enters when no thread holds the lock
CanAcquire(l) == l = 0

\* a worker that serves no request
IdleWorker ==
    [pc |-> "idle", kind |-> "none", upload |-> "none", cause |-> "none", got |-> NoReader,
     resp |-> [ok |-> FALSE, status |-> 0, error |-> "none", boxes |-> <<>>, text |-> <<>>]]

\* what readtext can return: nothing, text without entities, phone numbers
ReadResults == {<<>>, SceneWords, ScenePhones}

InitService ==
    /\ procs = [p \in 1..NumWorkers |-> IdleWorker]
    /\ lock = 0
    /\ reader = NoReader
    /\ installed \in BOOLEAN
    /\ TextIdle /\ BoxIdle

\* worker p answers: the request ends with the response
Answer(p, cause, resp) ==
    procs' = [procs EXCEPT ![p].pc = "done", ![p].cause = cause, ![p].resp = resp]

Goto(p, pc) == procs' = [procs EXCEPT ![p].pc = pc]

\* a request arrives at one of the two entry points
Request(p, kind, upload) ==
    /\ procs[p].pc = "idle"
    /\ procs' = [procs EXCEPT ![p] = [IdleWorker EXCEPT !.pc = "entry", !.kind = kind,
                                                         !.upload = upload]]
    /\ UNCHANGED <<lock, reader, installed, textVars, boxVars>>

\* the tests before the reader is asked for
EntryChecks(p) ==
    /\ procs[p].pc = "entry"
    /\ IF ~installed THEN Answer(p, "missing", ErrorResponse(500, "easyocr-not-installed"))
       ELSE IF procs[p].upload = "none" THEN Answer(p, "input", ErrorResponse(400, "missing-image"))
       ELSE IF procs[p].kind = "text" /\ procs[p].upload = "unnamed"
            THEN Answer(p, "input", ErrorResponse(400, "empty-image"))
       ELSE Goto(p, "get_reader")
    /\ UNCHANGED <<lock, reader, installed, textVars, boxVars>>

\* _get_reader: the test outside the lock
GetReader(p) ==
    /\ procs[p].pc = "get_reader"
    /\ Goto(p, IF reader = NoReader /\ installed THEN "init_wait" ELSE "loaded")
    /\ UNCHANGED <<lock, reader, installed, textVars, boxVars>>

\* _get_reader: with _reader_lock
InitAcquire(p) ==
    /\ procs[p].pc = "init_wait"
    /\ CanAcquire(lock)
    /\ lock' = p
    /\ Goto(p, "init_locked")
    /\ UNCHANGED <<reader, installed, textVars, boxVars>>

\* a variant of the test inside the lock that always builds a reader
NeedsReader_Always(r) == TRUE

\* if _reader is None, inside the lock
NeedsReader(r) == r = NoReader

\* _get_reader: the test inside the lock and easyocr.Reader(...), which
\* builds a new reader or raises; the lock is released either way
InitReader(p, built) ==
    /\ procs[p].pc = "init_locked"
    /\ lock' = 0
    /\ IF ~NeedsReader(reader) THEN Goto(p, "loaded") /\ UNCHANGED reader
       ELSE IF built THEN Goto(p, "loaded") /\ reader' = reader + 1
       ELSE Answer(p, "init-failed", Guardrail(procs[p].kind)) /\ UNCHANGED reader
    /\ UNCHANGED <<installed, textVars, boxVars>>

\* return _reader, _load_reader_or_error and the isinstance test
LoadReaderOrError(p) ==
    /\ procs[p].pc = "loaded"
    /\ IF reader = NoReader
       THEN Answer(p, "init-failed", ErrorResponse(500, "easyocr-not-initialized"))
       ELSE procs' = [procs EXCEPT ![p].pc = "read_wait", ![p].got = reader]
    /\ UNCHANGED <<lock, reader, installed, textVars, boxVars>>

\* with _reader_lock, before readtext
ReadAcquire(p) ==
    /\ procs[p].pc = "read_wait"
    /\ CanAcquire(lock)
    /\ lock' = p
    /\ Goto(p, "reading")
    /\ UNCHANGED <<reader, installed, textVars, boxVars>>

\* readtext returns detections, and the entry point goes on to its answer
ReadText(p, dets) ==
    /\ procs[p].pc = "reading"
    /\ lock' = 0
    /\ Answer(p, "none", Success(procs[p].kind, dets))
    /\ UNCHANGED <<reader, installed, textVars, boxVars>>

\* readtext raises
ReadFails(p) ==
    /\ procs[p].pc = "reading"
    /\ lock' = 0
    /\ Answer(p, "read-failed", Guardrail(procs[p].kind))
    /\ UNCHANGED <<reader, installed, textVars, boxVars>>

\* the worker is free for the next request
Return(p) ==
    /\ procs[p].pc = "done"
    /\ procs' = [procs EXCEPT ![p] = IdleWorker]
    /\ UNCHANGED <<lock, reader, installed, textVars, boxVars>>

NextService ==
    \E p \in 1..NumWorkers :
        \/ \E kind \in {"text", "boxes"}, upload \in {"none", "unnamed", "image"} :
              Request(p, kind, upload)
        \/ EntryChecks(p)
        \/ GetReader(p)
        \/ InitAcquire(p)
        \/ \E built \in BOOLEAN : InitReader(p, built)
        \/ LoadReaderOrError(p)
        \/ ReadAcquire(p)
        \/ \E dets \in ReadResults : ReadText(p, dets)
        \/ ReadFails(p)
        \/ Return(p)

SpecService == InitService /\ [][NextService]_vars

\* C16: at most one readtext call is in flight, and the thread that makes it
\* holds the reader lock
C16_OneReadtextInFlight ==
    /\ \A p, q \in 1..NumWorkers :
          (procs[p].pc = "reading" /\ procs[q].pc = "reading") => p = q
    /\ \A p \in 1..NumWorkers : procs[p].pc = "reading" => lock = p

\* C16: a readtext call of one entry point is in flight while a request to
\* the other entry point waits for the lock
C16_Witness ==
    \E p, q \in 1..NumWorkers :
        /\ procs[p].pc = "reading" /\ procs[q].pc = "read_wait"
        /\ procs[p].kind # procs[q].kind

\* C17: read_text_boxes answers ok = false with an error code when the OCR
\* library is missing or the reader cannot be built, and ok = true with the
\* boxes found, none when nothing matches, after readtext returned
C17_MissingOcrIsAnError ==
    \A p \in 1..NumWorkers :
        (procs[p].pc = "done" /\ procs[p].kind = "boxes") =>
            /\ procs[p].cause \in {"missing", "init-failed"} =>
                  /\ ~procs[p].resp.ok
                  /\ procs[p].resp.error \in {"easyocr-not-installed", "easyocr-not-initialized",
                                               "ocr-boxes-failed"}
                  /\ procs[p].resp.status = 500
            /\ procs[p].cause = "none" =>
                  /\ procs[p].resp.ok
                  /\ procs[p].resp.error = "none"
                  /\ reader # NoReader /\ installed
            /\ (procs[p].resp.ok /\ procs[p].resp.boxes = <<>>) => procs[p].cause = "none"
            /\ (~installed) => procs[p].cause = "missing"

\* C17: one request to read_text_boxes was answered after the reader could
\* not be built, and another after readtext returned text without entities
C17_Witness ==
    \E p, q \in 1..NumWorkers :
        /\ procs[p].pc = "done" /\ procs[p].kind = "boxes" /\ procs[p].cause = "init-failed"
        /\ procs[q].pc = "done" /\ procs[q].kind = "boxes" /\ procs[q].cause = "none"
        /\ procs[q].resp.boxes = <<>>

----------------------------------------------------------------------------
(* The overlap ratio and the lines of the clusterer. *)

\* C21 as stated: the divisor of every overlap ratio the clusterer computes
\* is max(1.0, min(line.height, token.height))
C21_AsClaimed ==
    placed.op = "place" =>
        \A k \in 1..Len(placed.before) :
            placed.ratios[k][2]
                = Max2(Unit, Min2(placed.before[k].box.height, placed.item.box.height))

\* C21: the divisor of every overlap ratio the clusterer computes is
\* min(line.height, token.height) when that is not zero, also when it is
\* below 1.0, and 1.0 when it is zero; it is never zero
C21_DivisorIsMinOrOne ==
    placed.op = "place" =>
        \A k \in 1..Len(placed.before) :
            \E least \in {Min2(placed.before[k].box.height, placed.item.box.height)} :
                /\ placed.ratios[k][2] > 0
                /\ least > 0 => placed.ratios[k][2] = least
                /\ least = 0 => placed.ratios[k][2] = Unit

\* C21: a token without height was compared with a line half a pixel high
\* and with a line of full height
C21_Witness ==
    /\ placed.op = "place"
    /\ placed.item.box.height = 0
    /\ \E k \in 1..Len(placed.before) :
          placed.before[k].box.height > 0 /\ placed.before[k].box.height < Unit
    /\ \E k \in 1..Len(placed.before) : placed.before[k].box.height >= Unit

----------------------------------------------------------------------------
(* The range of the scores. *)

\* C22: for every entity type, an unknown one included, and every text, the
\* empty one included, score returns a truth value and a score from 0.0 to
\* 1.0
C22_ScoreInUnitRange ==
    out.op = "score" =>
        /\ out.is_valid \in BOOLEAN
        /\ 0 <= out.score /\ out.score <= ScoreUnit

\* C22: the empty text has been scored for an unknown entity type
C22_Witness ==
    /\ out.op = "score"
    /\ out.type = "other"
    /\ text = Empty

\* C25: a score of 1.0 is reported only together with is_valid = true
C25_FullScoreOnlyIfValid ==
    out.op = "score" => (out.score = ScoreUnit => out.is_valid)

\* C23: the reader is built at most once and only by the holder of the
\* reader lock, every request that got a reader got the same one, no worker
\* waits for the lock while it holds it, and whoever holds the lock is at a
\* step that releases it
C23_ReaderBuiltOnce ==
    /\ reader \in {NoReader, 1}
    /\ \A p \in 1..NumWorkers :
          /\ procs[p].pc = "init_locked" => lock = p
          /\ procs[p].got \in {NoReader, reader}
          /\ procs[p].pc \in {"read_wait", "reading"} => procs[p].got = reader /\ reader # NoReader
          /\ procs[p].pc \in {"init_wait", "read_wait"} => lock # p
    /\ lock # 0 => procs[lock].pc \in {"init_locked", "reading"}

\* C23: two requests found no reader and went for the lock; one has built
\* the reader and reads with it, the other one now holds the lock for the
\* second test
C23_Witness ==
    \E p, q \in 1..NumWorkers :
        /\ procs[p].pc = "read_wait" /\ procs[p].got = 1
        /\ procs[q].pc = "init_locked" /\ lock = q
        /\ reader = 1

\* the tokens the loop of the clusterer has placed
Processed == {items[k] : k \in 1..Len(items)} \ {queue[k] : k \in 1..Len(queue)}

\* where the token stands in the lines
PlacesOf(ls, token) ==
    {<<k, j>> \in (1..Len(ls)) \X (1..MaxTokens + 1) :
        j <= Len(ls[k].items) /\ ls[k].items[j] = token}

\* the box around the members of the line, with its height
MemberBox(line) ==
    [min_x |-> MinOf({line.items[j].box.min_x : j \in 1..Len(line.items)}),
     max_x |-> MaxOf({line.items[j].box.max_x : j \in 1..Len(line.items)}),
     min_y |-> MinOf({line.items[j].box.min_y : j \in 1..Len(line.items)}),
     max_y |-> MaxOf({line.items[j].box.max_y : j \in 1..Len(line.items)}),
     height |-> MaxOf({line.items[j].box.max_y : j \in 1..Len(line.items)})
                - MinOf({line.items[j].box.min_y : j \in 1..Len(line.items)})]

\* C24: while the clusterer runs and when it has returned, every token
\* placed so far stands in exactly one line and the lines hold no other
\* token, a placement leaves the members of the lines before it where they
\* are, the box of each line is the box around its members with height
\* max_y - min_y, and the returned lines are in nondecreasing
\* (box.min_y, box.min_x) order
C24_LinesPartitionTokens ==
    phase \in {"placing", "clustered"} =>
        /\ \A token \in Processed : Cardinality(PlacesOf(lines, token)) = 1
        /\ \A k \in 1..Len(lines) :
              /\ lines[k].items # <<>>
              /\ \A j \in 1..Len(lines[k].items) : lines[k].items[j] \in Processed
              /\ lines[k].box = MemberBox(lines[k])
        /\ placed.op = "place" =>
              /\ Len(placed.after) >= Len(placed.before)
              /\ \A k \in 1..Len(placed.before) :
                    SubSeq(placed.after[k].items, 1, Len(placed.before[k].items))
                        = placed.before[k].items
        /\ phase = "clustered" =>
              \A k \in 1..(Len(lines) - 1) : ~KeyLess(BoxKey(lines[k + 1]), BoxKey(lines[k]))

\* C24: the clusterer has returned two lines, one of them with two tokens
\* and a box wider and higher than its first token
C24_Witness ==
    /\ phase = "clustered"
    /\ Len(lines) = 2
    /\ \E k \in 1..Len(lines) :
          /\ Len(lines[k].items) = 2
          /\ lines[k].box.max_x > lines[k].items[1].box.max_x
          /\ lines[k].box.height > lines[k].items[1].box.height

\* the length the vertical extents of two boxes share
SharedHeight(a, b) == Max2(0, Min2(a.max_y, b.max_y) - Max2(a.min_y, b.min_y))

\* the lines of the placement that took the token in
JoinedLines ==
    {k \in 1..Len(placed.before) : placed.after[k].items # placed.before[k].items}

\* C26: as claimed, any two tokens of one line have vertically overlapping
\* boxes, however many tokens there are
C26_AsClaimed ==
    phase \in {"placing", "clustered"} =>
        \A k \in 1..Len(lines) : \A i, j \in 1..Len(lines[k].items) :
           i # j => SharedHeight(lines[k].items[i].box, lines[k].items[j].box) > 0

\* C26: a token joins a line only when its box shares at least half of the
\* smaller height with the box of the line as it is then, so every token
\* of a line of several overlaps vertically another token of the line,
\* and the two tokens of a line of two overlap each other
C26_OverlapsTheLineJoined ==
    phase \in {"placing", "clustered"} =>
        /\ placed.op = "place" =>
              \A k \in JoinedLines :
                 /\ SharedHeight(placed.before[k].box, placed.item.box) > 0
                 /\ RatioAtLeast(placed.ratios[k], Y_OVERLAP_THRESH)
        /\ \A k \in 1..Len(lines) : \A i \in 1..Len(lines[k].items) :
              Len(lines[k].items) > 1 =>
                 \E j \in 1..Len(lines[k].items) :
                    /\ j # i
                    /\ SharedHeight(lines[k].items[i].box, lines[k].items[j].box) > 0

\* C26: the clusterer has returned one line of three tokens, two of them
\* with disjoint vertical extents
C26_Witness ==
    /\ phase = "clustered"
    /\ \E k \in 1..Len(lines) :
          /\ Len(lines[k].items) = 3
          /\ \E i, j \in 1..3 :
                /\ lines[k].items[i].box.max_y < lines[k].items[j].box.min_y

====
